---- MODULE Spec2Model ----
(***************************************************************************)
(* Model of the optimized RAG pipeline of PartSelect's chat backend:       *)
(* OptimizedRAGAgent / OptimizedRAGOrchestrator (optimized_rag_agent.py)   *)
(* together with ConversationMemory (memory_manager.py).                   *)
(*                                                                         *)
(* Python strings are sequences of one-character strings, so that the      *)
(* substring tests and regular expressions of the rule-based classifier    *)
(* are computed character by character.  None and a non-string JSON value  *)
(* are one-element sequences holding a marker no query text can contain.   *)
(***************************************************************************)
EXTENDS Naturals, Sequences, FiniteSets, TLC

----------------------------------------------------------------------------
(* Bounds of the model *)

\* most part records one structured-store search matches (above the cap of 5 parts)
MaxHits == 6
\* most records one search_compatible_parts call returns
MaxCompat == 3
\* the most repair guides a search of the structured store matches
MaxRepairs == 4
\* the most articles a search of the structured store matches
MaxBlogs == 3
\* most documents one vector query returns (above the cap of 2 items)
MaxVec == 3
\* most process_query calls of one run
MaxRequests == 2
\* most vocabulary words in a query given to the rule-based classifier
MaxWords == 2
\* messages a thread holds when the memory is called directly
MaxMessages == 5
\* most calls made in one run of the memory called directly
MaxMemoryCalls == 8
\* most tool calls one reply of the model requests
MaxToolCalls == 2

----------------------------------------------------------------------------
(* Python values *)

None == <<"<None>">>
\* a JSON value that is not a string (a number in a key_terms list)
NonStr == <<"<number>">>
\* a key absent from the classifier's JSON object
Missing == <<"<missing>">>

IsStr(v) == v \notin {None, NonStr, Missing}

Min(a, b) == IF a <= b THEN a ELSE b

Range(f) == {f[i] : i \in DOMAIN f}

\* the first n elements of a list: Python's list[:n]
Take(seq, n) == SubSeq(seq, 1, Min(Len(seq), n))

UpperSeq == <<"A","B","C","D","E","F","G","H","I","J","K","L","M","N","O","P","Q","R","S","T","U","V","W","X","Y","Z">>
LowerSeq == <<"a","b","c","d","e","f","g","h","i","j","k","l","m","n","o","p","q","r","s","t","u","v","w","x","y","z">>
DigitSeq == <<"0","1","2","3","4","5","6","7","8","9">>

IsUpper(c) == \E i \in 1..26 : UpperSeq[i] = c
IsDigit(c) == \E i \in 1..10 : DigitSeq[i] = c
\* \w of Python's re on the characters of the model
IsWordChar(c) == IsUpper(c) \/ (\E i \in 1..26 : LowerSeq[i] = c) \/ IsDigit(c) \/ c = "_"

LowerChar(c) == IF IsUpper(c) THEN LowerSeq[CHOOSE i \in 1..26 : UpperSeq[i] = c] ELSE c

\* str.lower()
Lower(s) == [i \in 1..Len(s) |-> LowerChar(s[i])]

\* str.title(): a letter after a non-letter is upper case, every other letter lower case
UpperChar(c) == IF \E i \in 1..26 : LowerSeq[i] = c THEN UpperSeq[CHOOSE i \in 1..26 : LowerSeq[i] = c] ELSE c
IsLetter(c) == IsUpper(c) \/ (\E i \in 1..26 : LowerSeq[i] = c)
Title(s) == [i \in 1..Len(s) |-> IF i = 1 \/ ~IsLetter(s[i - 1]) THEN UpperChar(s[i]) ELSE LowerChar(s[i])]

\* sub in s
Contains(s, sub) == \E i \in 0..(Len(s) - Len(sub)) : \A j \in 1..Len(sub) : s[i + j] = sub[j]

\* any(word in s for word in words)
ContainsAny(s, words) == \E w \in Range(words) : Contains(s, w)

\* " ".join(terms)
RECURSIVE Join(_)
Join(terms) ==
    IF Len(terms) = 0 THEN <<>>
    ELSE IF Len(terms) = 1 THEN terms[1]
    ELSE terms[1] \o <<" ">> \o Join(Tail(terms))

\* every ordering of a finite set: the orders list(set(...)) can produce
ListsOfSet(S) == {f \in [1..Cardinality(S) -> S] : \A i, j \in 1..Cardinality(S) : f[i] = f[j] => i = j}

----------------------------------------------------------------------------
(* Regular expressions of the agent.  Every pattern that is searched with  *)
(* \b on both sides consumes only word characters, so each of its matches  *)
(* is one whole word (a maximal run of \w) that the pattern matches fully. *)

AllUpper(w, a, b) == \A k \in a..b : IsUpper(w[k])
AllDigit(w, a, b) == \A k \in a..b : IsDigit(w[k])

\* [A-Z]{2}\d+ (PS\d+ is a case of it)
FullTwoUpperDigits(w) == Len(w) >= 3 /\ AllUpper(w, 1, 2) /\ AllDigit(w, 3, Len(w))
\* PS\d+
FullPSDigits(w) == Len(w) >= 3 /\ w[1] = "P" /\ w[2] = "S" /\ AllDigit(w, 3, Len(w))
\* W\d+
FullWDigits(w) == Len(w) >= 2 /\ w[1] = "W" /\ AllDigit(w, 2, Len(w))
\* [A-Z]\d+[A-Z]+\d*
FullUpperDigitsUppersDigits(w) ==
    /\ Len(w) >= 3
    /\ IsUpper(w[1])
    /\ \E a \in 2..(Len(w) - 1) : \E b \in (a + 1)..Len(w) :
          AllDigit(w, 2, a) /\ AllUpper(w, a + 1, b) /\ AllDigit(w, b + 1, Len(w))
\* [A-Z]{2,}\d+[A-Z]*\d*
FullModelNumber(w) ==
    \E a \in 2..(Len(w) - 1) : \E b \in (a + 1)..Len(w) : \E c \in b..Len(w) :
        AllUpper(w, 1, a) /\ AllDigit(w, a + 1, b) /\ AllUpper(w, b + 1, c) /\ AllDigit(w, c + 1, Len(w))

\* the part-number alternation of line 304
IsPartNumberWord(w) == FullPSDigits(w) \/ FullTwoUpperDigits(w) \/ FullWDigits(w) \/ FullUpperDigitsUppersDigits(w)

\* re.match(r'PS\d+', term): a prefix match
MatchPS(term) == IsStr(term) /\ Len(term) >= 3 /\ term[1] = "P" /\ term[2] = "S" /\ IsDigit(term[3])
\* re.match(r'[A-Z]{2,}\d+', term): a prefix match
MatchModel(term) == IsStr(term) /\ \E a \in 2..(Len(term) - 1) : AllUpper(term, 1, a) /\ IsDigit(term[a + 1])

WordStart(s, i) == IsWordChar(s[i]) /\ (i = 1 \/ ~IsWordChar(s[i - 1]))
WordEnd(s, i) == CHOOSE j \in i..Len(s) : (\A k \in i..j : IsWordChar(s[k])) /\ (j = Len(s) \/ ~IsWordChar(s[j + 1]))

\* the words of s, left to right
RECURSIVE WordsFrom(_, _)
WordsFrom(s, i) ==
    IF i > Len(s) THEN <<>>
    ELSE IF WordStart(s, i) THEN <<SubSeq(s, i, WordEnd(s, i))>> \o WordsFrom(s, WordEnd(s, i) + 1)
    ELSE WordsFrom(s, i + 1)
Words(s) == WordsFrom(s, 1)

\* re.findall(r'\b(?:PS\d+|[A-Z]{2}\d+|W\d+|[A-Z]\d+[A-Z]+\d*)\b', query)
FindPartNumbers(query) == SelectSeq(Words(query), IsPartNumberWord)
\* re.findall(r'\b[A-Z]{2,}\d+[A-Z]*\d*\b', query)
FindModelNumbers(query) == SelectSeq(Words(query), FullModelNumber)
\* re.search(r'\b[A-Z]{2}\d+\b|\bPS\d+\b', query)
SearchPartNumber(query) == \E i \in 1..Len(Words(query)) : FullTwoUpperDigits(Words(query)[i]) \/ FullPSDigits(Words(query)[i])

----------------------------------------------------------------------------
(* The rule-based classifier: OptimizedRAGAgent._rule_based_analyze_query  *)

ValidTypes == {"specific_part", "compatibility", "troubleshooting", "educational", "part_search"}

SpecificWords == <<<<"p","a","r","t"," ","n","u","m","b","e","r">>, <<"p","s">>, <<"m","o","d","e","l">>>>
CompatibilityWords == <<<<"c","o","m","p","a","t","i","b","l","e">>, <<"c","o","m","p","a","t","i","b","i","l","i","t","y">>, <<"m","o","d","e","l">>, <<"w","o","r","k"," ","w","i","t","h">>>>
TroubleshootingWords == <<<<"n","o","t"," ","w","o","r","k","i","n","g">>, <<"n","o","t"," ","m","a","k","i","n","g">>, <<"b","r","o","k","e","n">>, <<"l","e","a","k","i","n","g">>, <<"p","r","o","b","l","e","m">>, <<"i","s","s","u","e">>, <<"t","r","o","u","b","l","e","s","h","o","o","t">>, <<"r","e","p","a","i","r">>, <<"f","i","x">>, <<"w","o","n","'","t"," ","w","o","r","k">>, <<"d","o","e","s","n","'","t"," ","w","o","r","k">>, <<"s","t","o","p","p","e","d"," ","w","o","r","k","i","n","g">>>>
EducationalWords == <<<<"h","o","w"," ","t","o">>, <<"i","n","s","t","a","l","l">>, <<"r","e","p","l","a","c","e">>, <<"m","a","i","n","t","e","n","a","n","c","e">>, <<"c","l","e","a","n">>>>
part_types == <<<<"f","i","l","t","e","r">>, <<"s","e","a","l">>, <<"d","o","o","r">>, <<"p","u","m","p">>, <<"m","o","t","o","r">>, <<"v","a","l","v","e">>, <<"h","o","s","e">>, <<"g","a","s","k","e","t">>, <<"d","i","s","p","e","n","s","e","r">>, <<"i","c","e"," ","m","a","k","e","r">>>>
brands == <<<<"w","h","i","r","l","p","o","o","l">>, <<"g","e">>, <<"f","r","i","g","i","d","a","i","r","e">>, <<"k","e","n","m","o","r","e">>, <<"s","a","m","s","u","n","g">>, <<"l","g">>, <<"m","a","y","t","a","g">>, <<"b","o","s","c","h">>>>

s_refrigerator == <<"r","e","f","r","i","g","e","r","a","t","o","r">>
s_fridge == <<"f","r","i","d","g","e">>
s_dishwasher == <<"d","i","s","h","w","a","s","h","e","r">>
s_appliance == <<"a","p","p","l","i","a","n","c","e">>

\* the intent chain with the troubleshooting test ahead of the compatibility test
rule_based_query_type_troubleshooting_first(query) ==
    IF ContainsAny(Lower(query), SpecificWords) /\ SearchPartNumber(query) THEN "specific_part"
    ELSE IF ContainsAny(Lower(query), TroubleshootingWords) THEN "troubleshooting"
    ELSE IF ContainsAny(Lower(query), CompatibilityWords) THEN "compatibility"
    ELSE IF ContainsAny(Lower(query), EducationalWords) THEN "educational"
    ELSE "part_search"

\* the intent chain with the compatibility test ahead of the specific-part test
rule_based_query_type_compatibility_first(query) ==
    IF ContainsAny(Lower(query), CompatibilityWords) THEN "compatibility"
    ELSE IF ContainsAny(Lower(query), SpecificWords) /\ SearchPartNumber(query) THEN "specific_part"
    ELSE IF ContainsAny(Lower(query), TroubleshootingWords) THEN "troubleshooting"
    ELSE IF ContainsAny(Lower(query), EducationalWords) THEN "educational"
    ELSE "part_search"

\* lines 282-291: the if/elif chain that determines the query type
rule_based_query_type(query) ==
    IF ContainsAny(Lower(query), SpecificWords) /\ SearchPartNumber(query) THEN "specific_part"
    ELSE IF ContainsAny(Lower(query), CompatibilityWords) THEN "compatibility"
    ELSE IF ContainsAny(Lower(query), TroubleshootingWords) THEN "troubleshooting"
    ELSE IF ContainsAny(Lower(query), EducationalWords) THEN "educational"
    ELSE "part_search"

\* lines 294-298
rule_based_appliance_type(query) ==
    IF Contains(Lower(query), s_refrigerator) \/ Contains(Lower(query), s_fridge) THEN s_refrigerator
    ELSE IF Contains(Lower(query), s_dishwasher) THEN s_dishwasher
    ELSE None

\* [w for w in vocabulary if w in query_lower], in the vocabulary's order
PresentIn(vocabulary, query_lower) == SelectSeq(vocabulary, LAMBDA w : Contains(query_lower, w))

\* lines 301-321: key_terms as collected, before duplicates are removed
rule_based_collected_terms(query) ==
    FindPartNumbers(query) \o FindModelNumbers(query) \o PresentIn(part_types, Lower(query)) \o PresentIn(brands, Lower(query))

\* the collected terms returned as they are, without list(set(...))
rule_based_key_terms_with_duplicates(query) == {rule_based_collected_terms(query)}

\* line 326: list(set(key_terms)); the order of a set of strings is not fixed
rule_based_key_terms(query) == ListsOfSet(Range(rule_based_collected_terms(query)))

\* the results _rule_based_analyze_query can return for a query
_rule_based_analyze_query(query) ==
    { [type |-> rule_based_query_type(query),
       appliance_type |-> rule_based_appliance_type(query),
       key_terms |-> kt,
       original_query |-> query,
       search_strategy |-> "rule_based"] : kt \in rule_based_key_terms(query) }

----------------------------------------------------------------------------
(* Inputs of the model *)

\* queries given to process_query
q_part_number == <<"P","S","1","1","7","5","2","7","7","8">>
q_leaking == <<"d","i","s","h","w","a","s","h","e","r"," ","l","e","a","k","i","n","g">>
q_pump == <<"w","h","i","r","l","p","o","o","l"," ","p","u","m","p">>
q_two_letter_part == <<"p","a","r","t"," ","n","u","m","b","e","r"," ","W","P","4","5">>
q_compatible_model == <<"W","h","a","t"," ","p","a","r","t","s"," ","a","r","e"," ","c","o","m","p","a","t","i","b","l","e"," ","w","i","t","h"," ","m","o","d","e","l"," ","G","E"," ","G","S","S","2","5","G","S","H","S","S","?">>
Queries == {q_part_number, q_leaking, q_pump, q_two_letter_part, q_compatible_model}

\* queries given to the rule-based classifier alone: one to MaxWords words of
\* a vocabulary, and the three queries of the specification's scenarios
Vocabulary ==
    <<<<"P","S","1","2","3">>, <<"W","P","4","5">>, <<"W","1","0","2","3","4">>, <<"G","S","S","2","5","G","S","H","S","S">>, <<"1","2","3","4","5">>, <<"p","s","1","2","3">>, <<"m","o","d","e","l">>, <<"p","a","r","t"," ","n","u","m","b","e","r">>,
      <<"c","o","m","p","a","t","i","b","l","e">>, <<"l","e","a","k","i","n","g">>, <<"i","n","s","t","a","l","l">>, <<"f","i","l","t","e","r">>, <<"w","h","i","r","l","p","o","o","l">>, <<"r","e","f","r","i","g","e","r","a","t","o","r">>, <<"t","o","p","s">>, <<"G","E","?">>>>
q_scenario_leak == <<"M","y"," ","d","i","s","h","w","a","s","h","e","r"," ","i","s"," ","l","e","a","k","i","n","g"," ","w","a","t","e","r">>
q_scenario_compat == <<"W","h","a","t"," ","p","a","r","t","s"," ","a","r","e"," ","c","o","m","p","a","t","i","b","l","e"," ","w","i","t","h"," ","m","o","d","e","l"," ","G","E"," ","G","S","S","2","5","G","S","H","S","S","?">>
RECURSIVE WordLists(_)
WordLists(n) ==
    IF n = 0 THEN {<<>>}
    ELSE WordLists(n - 1) \cup {Append(ws, w) : ws \in WordLists(n - 1), w \in Range(Vocabulary)}
ClassifierQueries == {Join(ws) : ws \in WordLists(MaxWords) \ {<<>>}} \cup {q_part_number, q_scenario_leak, q_scenario_compat}

\* thread ids a caller passes; "None" is Python's None
NoThread == "None"
CallerThreads == {"t1"}
\* the values uuid.uuid4() returns, in the order it returns them
UuidPool == <<"uuid-1", "uuid-2", "uuid-3">>

\* what the classifier LLM can answer: the call raises, the content is not
\* JSON, the JSON is not an object, or it is an object with these fields
t_model == <<"G","S","S","2","5","G","S","H","S","S">>
t_pump == <<"p","u","m","p">>
t_brand == <<"G","E">>
RichTerms == <<q_part_number, t_model, t_pump, t_brand>>
t_two_letter_part == <<"W","P","4","5">>
LLMObject(type, key_terms, appliance_type) ==
    [kind |-> "object", type |-> type, key_terms |-> key_terms, appliance_type |-> appliance_type]
LLMOutcomes ==
    { [kind |-> k, type |-> "Missing", key_terms |-> Missing, appliance_type |-> Missing] :
        k \in {"raise", "malformed_json", "not_object"} }
    \cup { LLMObject(t, RichTerms, s_dishwasher) : t \in ValidTypes }
    \cup { LLMObject(t, <<>>, Missing) : t \in {"specific_part", "compatibility"} }
    \cup { LLMObject("troubleshooting", <<t_brand>>, Missing),
           LLMObject("educational", <<t_two_letter_part, q_part_number>>, Missing),
           LLMObject("educational", <<>>, s_dishwasher),
           LLMObject("part_search", <<t_pump, t_brand, brands[1]>>, s_dishwasher),
           LLMObject("Missing", Missing, Missing),
           LLMObject("general_question", Missing, None),
           LLMObject("None", <<t_pump>>, Missing),
           LLMObject("specific_part", None, Missing),
           LLMObject("part_search", <<q_part_number, NonStr>>, Missing),
           LLMObject("troubleshooting", <<NonStr>>, Missing) }

\* the model numbers the part_compatibility table of a store has rows for
CompatModels == {q_part_number, t_model}

\* the rows of the structured store that answer a request: how many rows
\* match a full-text search of each table, which of the articles found have
\* a NULL excerpt (by rank), how many parts are compatible with each model
\* number, and which part numbers exist.  One fetch reads the parts and
\* repairs tables, or the blogs table and part numbers, or the compatibility
\* table: the stores vary the tables one fetch reads together.
Stores ==
    [parts : 0..MaxHits, repairs : 0..MaxRepairs, blogs : {0}, null_excerpts : {{}},
     compat : {[m \in CompatModels |-> 0]}, part_numbers : {{}}]
    \cup { store \in [parts : {0}, repairs : {0}, blogs : 0..MaxBlogs, null_excerpts : SUBSET (1..MaxBlogs),
                       compat : {[m \in CompatModels |-> 0]}, part_numbers : SUBSET {q_part_number}] :
             store.null_excerpts \subseteq 1..store.blogs }
    \cup [parts : {0}, repairs : {0}, blogs : {0}, null_excerpts : {{}},
          compat : [CompatModels -> 0..MaxCompat], part_numbers : {{}}]

\* what one vector query does: it raises, or returns its nearest documents,
\* of which some (by rank) were stored without a text
VectorOutcomes ==
    [raises : {TRUE}, docs : 0..MaxVec, none_content : {{}}]
    \cup { vec \in [raises : {FALSE}, docs : 0..MaxVec, none_content : SUBSET (1..MaxVec)] :
             vec.none_content \subseteq 1..vec.docs }

\* what the generator call does
GenOutcomes == {"raise", "no_choices", "none_content", "text"}

\* the inputs of the orchestrator's runs
OrchQueries == {q_part_number, q_pump}
OrchLLMOutcomes ==
    { [kind |-> "raise", type |-> "Missing", key_terms |-> Missing, appliance_type |-> Missing],
      LLMObject("part_search", RichTerms, s_dishwasher) }
OrchStores ==
    [parts : {0, MaxHits}, repairs : {0}, blogs : {0}, null_excerpts : {{}},
     compat : {[m \in CompatModels |-> 0]}, part_numbers : {{q_part_number}}]
OrchVectorOutcomes ==
    { [raises |-> TRUE, docs |-> 0, none_content |-> {}], [raises |-> FALSE, docs |-> MaxVec, none_content |-> {}],
      [raises |-> FALSE, docs |-> MaxVec, none_content |-> {1}] }

\* fixed texts
SystemPrompt == <<"<OptimizedRAGAgent.system_prompt>">>
MemorySystemPrompt == <<"<ConversationMemory.system_message>">>
WelcomeMessage == <<"<welcome_message>">>
GeneratedText == <<"<text the generator returned>">>
GenerateFallback == <<"I apologize, but I encountered an error generating a response. Please try again or contact customer service at 1-866-319-8402.">>
ProcessFallback == <<"I apologize, but I encountered an error processing your request. Please try again or contact customer service at 1-866-319-8402.">>
OrchestratorFallback == <<"I apologize, but I encountered an error. Please try again or contact customer service at 1-866-319-8402.">>

----------------------------------------------------------------------------
(* ConversationMemory (conversation/memory_manager.py).  The conversations  *)
(* dict is a function from thread ids to [messages, message_count,          *)
(* last_activity].  The times datetime.now() returns grow from call to      *)
(* call, and cleanup_old_conversations only compares them: last_activity is *)
(* kept as the thread's place in the order of the stored times, 1 for the   *)
(* thread that has been quiet longest.  created_at is left out.             *)

Message(role, content) == [role |-> role, content |-> content]

\* str(uuid.uuid4()), for the calls made so far: an id never returned before
FreshUuid(issued) == IF issued < Len(UuidPool) THEN UuidPool[issued + 1] ELSE NoThread

\* the id create_conversation(thread_id) returns; uuid is what uuid.uuid4()
\* returns when it is called
NewThreadId(thread_id, uuid) == IF thread_id = NoThread THEN uuid ELSE thread_id

\* datetime.now(): a time later than every time stored
Now(convs) ==
    IF DOMAIN convs = {} THEN 1
    ELSE 1 + CHOOSE latest \in {convs[t].last_activity : t \in DOMAIN convs} :
                 \A t \in DOMAIN convs : convs[t].last_activity <= latest

\* the stored times as their places in their order
Ordered(convs) ==
    [t \in DOMAIN convs |->
        [convs[t] EXCEPT !.last_activity = Cardinality({u \in DOMAIN convs : convs[u].last_activity <= convs[t].last_activity})]]

\* lines 97-124: the thread is created, or overwritten when it is known
create_conversation(convs, thread_id, uuid) ==
    Ordered([t \in DOMAIN convs \cup {NewThreadId(thread_id, uuid)} |->
                IF t = NewThreadId(thread_id, uuid)
                THEN [messages |-> <<Message("system", MemorySystemPrompt), Message("assistant", WelcomeMessage)>>,
                      message_count |-> 1,
                      last_activity |-> Now(convs)]
                ELSE convs[t]])

\* an append that counts every message, whatever its role
AppendMessage_counting_every_role(conv, role, content) ==
    [conv EXCEPT !.messages = Append(@, Message(role, content)),
                 !.message_count = @ + 1]

AppendMessage(conv, role, content) ==
    [conv EXCEPT !.messages = Append(@, Message(role, content)),
                 !.message_count = IF role = "user" THEN @ + 1 ELSE @]

\* lines 126-146, called with the id of a thread (never None): an unknown
\* thread is created first, and last_activity is set to the time of the call
add_message(convs, thread_id, role, content) ==
    LET known == IF thread_id \in DOMAIN convs THEN convs ELSE create_conversation(convs, thread_id, NoThread)
    IN Ordered([known EXCEPT ![thread_id] = [AppendMessage(@, role, content) EXCEPT !.last_activity = Now(known)]])

\* the messages with the system message left in
NonSystem_keeping_system(messages) == messages

NonSystem(messages) == SelectSeq(messages, LAMBDA m : m.role # "system")

get_messages_for_llm(convs, thread_id) ==
    IF thread_id \in DOMAIN convs THEN convs[thread_id].messages ELSE <<Message("system", MemorySystemPrompt)>>

get_conversation_history(convs, thread_id) ==
    IF thread_id \in DOMAIN convs THEN NonSystem(convs[thread_id].messages) ELSE <<>>

\* lines 182-200: the last assistant message is popped when the thread ends
\* with one, then the last user message when the thread then ends with one
remove_last_exchange(convs, thread_id) ==
    IF thread_id \notin DOMAIN convs THEN convs
    ELSE LET messages == convs[thread_id].messages
             without_assistant == IF Len(messages) > 0 /\ messages[Len(messages)].role = "assistant"
                                  THEN SubSeq(messages, 1, Len(messages) - 1) ELSE messages
             user_popped == Len(without_assistant) > 0 /\ without_assistant[Len(without_assistant)].role = "user"
         IN [convs EXCEPT ![thread_id] =
                [@ EXCEPT !.messages = IF user_popped THEN SubSeq(without_assistant, 1, Len(without_assistant) - 1) ELSE without_assistant,
                          !.message_count = IF user_popped THEN (IF @ - 1 > 0 THEN @ - 1 ELSE 0) ELSE @]]

\* lines 175-180: the thread is deleted when known, and created again
reset_conversation(convs, thread_id, uuid) ==
    create_conversation([t \in DOMAIN convs \ {thread_id} |-> convs[t]], thread_id, uuid)

\* lines 227-240: every thread whose last_activity is before the cutoff time
\* (now minus max_age_hours) is deleted; cutoff is the place of that time
\* among the stored times
cleanup_old_conversations(convs, cutoff) ==
    Ordered([t \in {u \in DOMAIN convs : ~(convs[u].last_activity < cutoff)} |-> convs[t]])

CountRole(messages, role) == Len(SelectSeq(messages, LAMBDA m : m.role = role))

\* get_conversation_stats calls msg["content"].split() on every message of
\* the thread: it raises AttributeError when a content is not a string
StatsRaises(convs, thread_id) ==
    thread_id \in DOMAIN convs /\ \E i \in 1..Len(convs[thread_id].messages) : ~IsStr(convs[thread_id].messages[i].content)

\* lines 202-225: {} for an unknown thread, the counts for a known one
get_conversation_stats(convs, thread_id) ==
    IF thread_id \notin DOMAIN convs THEN <<>>
    ELSE
    [total_messages |-> Len(convs[thread_id].messages),
     user_messages |-> CountRole(convs[thread_id].messages, "user"),
     assistant_messages |-> CountRole(convs[thread_id].messages, "assistant")]

----------------------------------------------------------------------------
(* PartSelectDatabase (database/database_manager.py) and the vector store,  *)
(* as the agent sees them.  Every method of the database catches its own    *)
(* exceptions and returns [] or None.  A record is named by the call that   *)
(* returned it, the text it was asked for and its rank in the answer; its   *)
(* text (the excerpt of an article, the content of a vector document) is a  *)
(* string or None.                                                          *)

Record(src, key, rank) == [src |-> src, key |-> key, rank |-> rank, text |-> "str"]
Ranked(src, key, n) == [i \in 1..n |-> Record(src, key, i)]
\* n rows of which those ranked in none_text have no text
Rows(src, key, n, none_text) ==
    [i \in 1..n |-> [Record(src, key, i) EXCEPT !.text = IF i \in none_text THEN "None" ELSE "str"]]

Call(fn, query, appliance_type, limit, brand, category) ==
    [fn |-> fn, query |-> query, appliance_type |-> appliance_type, limit |-> limit, brand |-> brand, category |-> category]

\* search_parts: ORDER BY bm25 LIMIT ?
search_parts(store, query, limit) == Ranked("search_parts", query, Min(limit, store.parts))
\* search_repairs: ORDER BY bm25 LIMIT ?
search_repairs(store, symptom, limit) == Ranked("search_repairs", symptom, Min(limit, store.repairs))
\* search_blogs: ORDER BY bm25 LIMIT ?
search_blogs(store, query, limit) == Rows("search_blogs", query, Min(limit, store.blogs), store.null_excerpts)
\* search_compatible_parts: WHERE pc.model_number = ?, no LIMIT
search_compatible_parts(store, model_number) ==
    Ranked("search_compatible_parts", model_number,
           IF model_number \in DOMAIN store.compat THEN store.compat[model_number] ELSE 0)
\* get_part_by_number: the one-record list, or the empty list for None
get_part_by_number(store, part_number) ==
    IF part_number \in store.part_numbers THEN <<Record("get_part_by_number", part_number, 1)>> ELSE <<>>

RECURSIVE Flatten(_)
Flatten(lists) == IF Len(lists) = 0 THEN <<>> ELSE lists[1] \o Flatten(Tail(lists))

----------------------------------------------------------------------------
(* OptimizedRAGAgent (agents/optimized_rag_agent.py)                        *)

QueryInfo(type, appliance_type, key_terms, original_query, search_strategy) ==
    [type |-> type, appliance_type |-> appliance_type, key_terms |-> key_terms,
     original_query |-> original_query, search_strategy |-> search_strategy]

\* _llm_analyze_query raises when the call raises, when json.loads raises,
\* when the JSON value takes no item assignment, and when len(key_terms)
\* raises (line 274)
llm_analysis_raises(llm) ==
    llm.kind # "object" \/ llm.key_terms = None \/ llm.key_terms = NonStr

\* lines 260-275: the analysis with its three defaults
_llm_analyze_query(query, llm) ==
    QueryInfo(IF llm.type = "Missing" THEN "part_search" ELSE llm.type,
              IF llm.appliance_type = Missing THEN None ELSE llm.appliance_type,
              IF llm.key_terms = Missing THEN <<>> ELSE llm.key_terms,
              query,
              "llm")

\* an analysis that answers a failed LLM classification with a default
_analyze_query_default_on_failure(query, llm) ==
    IF llm_analysis_raises(llm) THEN {QueryInfo("part_search", None, <<>>, query, "rule_based")}
    ELSE {_llm_analyze_query(query, llm)}

\* lines 196-204: the analyses _analyze_query can return
_analyze_query(query, llm) ==
    IF llm_analysis_raises(llm) THEN _rule_based_analyze_query(query) ELSE {_llm_analyze_query(query, llm)}

EmptyData == [parts |-> <<>>, repairs |-> <<>>, blogs |-> <<>>]

IsBrand(term) == Lower(term) \in Range(brands)

\* lines 342-354: the search query; the steps that raise are term.lower()
\* and " ".join(key_terms) on a key term that is not a string
search_query_raises(query_info) == \E i \in 1..Len(query_info.key_terms) : ~IsStr(query_info.key_terms[i])

\* the key terms with the brand names left in
troubleshooting_terms_with_brands(key_terms) == key_terms
troubleshooting_terms(key_terms) == SelectSeq(key_terms, LAMBDA term : ~IsBrand(term))

\* a search query that is the joined key terms even when there are none
build_search_query_without_original(query_info) ==
    IF query_info.type = "troubleshooting"
    THEN IF Len(troubleshooting_terms(query_info.key_terms)) > 0
         THEN Join(troubleshooting_terms(query_info.key_terms))
         ELSE IF query_info.appliance_type \in {None, <<>>} THEN s_appliance ELSE query_info.appliance_type
    ELSE Join(query_info.key_terms)

build_search_query(query_info) ==
    IF query_info.type = "troubleshooting"
    THEN IF Len(troubleshooting_terms(query_info.key_terms)) > 0
         THEN Join(troubleshooting_terms(query_info.key_terms))
         ELSE IF query_info.appliance_type \in {None, <<>>} THEN s_appliance ELSE query_info.appliance_type
    ELSE IF Len(query_info.key_terms) > 0 THEN Join(query_info.key_terms) ELSE query_info.original_query

\* filters["category"] = appliance_type, when appliance_type is truthy
category_filter(query_info) == IF query_info.appliance_type \in {None, <<>>} THEN None ELSE query_info.appliance_type

\* the last key term that is a brand, title-cased
brand_filter_last_match(key_terms) ==
    IF Len(SelectSeq(key_terms, IsBrand)) > 0 THEN Title(SelectSeq(key_terms, IsBrand)[Len(SelectSeq(key_terms, IsBrand))]) ELSE None

\* lines 402-405: the first key term that is a brand, title-cased
brand_filter(key_terms) ==
    IF Len(SelectSeq(key_terms, IsBrand)) > 0 THEN Title(SelectSeq(key_terms, IsBrand)[1]) ELSE None

part_lookup_terms(key_terms) == SelectSeq(key_terms, MatchPS)
\* a lookup for every key term, whatever its shape
model_lookup_terms_every_term(key_terms) == key_terms
model_lookup_terms(key_terms) == SelectSeq(key_terms, MatchModel)

Fetched(parts, repairs, blogs, db_calls) ==
    [primary_data |-> [parts |-> parts, repairs |-> repairs, blogs |-> blogs], db_calls |-> db_calls, raised |-> FALSE]

\* lines 332-415: the bundle and the store calls of the primary fetch
_fetch_primary_data(query_info, store) ==
    IF search_query_raises(query_info)
    THEN [primary_data |-> EmptyData, db_calls |-> <<>>, raised |-> TRUE]
    ELSE IF query_info.type = "specific_part" /\ Len(query_info.key_terms) > 0
    THEN Fetched(Flatten([i \in 1..Len(part_lookup_terms(query_info.key_terms)) |->
                            get_part_by_number(store, part_lookup_terms(query_info.key_terms)[i])]),
                 <<>>, <<>>,
                 [i \in 1..Len(part_lookup_terms(query_info.key_terms)) |->
                    Call("get_part_by_number", part_lookup_terms(query_info.key_terms)[i], None, 0, None, None)])
    ELSE IF query_info.type = "compatibility" /\ Len(query_info.key_terms) > 0
    THEN Fetched(Flatten([i \in 1..Len(model_lookup_terms(query_info.key_terms)) |->
                            search_compatible_parts(store, model_lookup_terms(query_info.key_terms)[i])]),
                 <<>>, <<>>,
                 [i \in 1..Len(model_lookup_terms(query_info.key_terms)) |->
                    Call("search_compatible_parts", model_lookup_terms(query_info.key_terms)[i], query_info.appliance_type, 0, None, None)])
    ELSE IF query_info.type = "troubleshooting"
    THEN Fetched(search_parts(store, build_search_query(query_info), 5),
                 search_repairs(store, build_search_query(query_info), 5),
                 <<>>,
                 <<Call("search_repairs", build_search_query(query_info), query_info.appliance_type, 5, None, None),
                   Call("search_parts", build_search_query(query_info), None, 5, None, category_filter(query_info))>>)
    ELSE IF query_info.type = "educational"
    THEN Fetched(Flatten([i \in 1..Len(part_lookup_terms(query_info.key_terms)) |->
                            get_part_by_number(store, part_lookup_terms(query_info.key_terms)[i])]),
                 <<>>,
                 search_blogs(store, build_search_query(query_info), 3),
                 <<Call("search_blogs", build_search_query(query_info), None, 3, None, None)>>
                 \o [i \in 1..Len(part_lookup_terms(query_info.key_terms)) |->
                    Call("get_part_by_number", part_lookup_terms(query_info.key_terms)[i], None, 0, None, None)])
    ELSE Fetched(search_parts(store, build_search_query(query_info), 10),
                 <<>>, <<>>,
                 <<Call("search_parts", build_search_query(query_info), None, 10,
                        brand_filter(query_info.key_terms), category_filter(query_info))>>)

total_primary_results(primary_data) == Len(primary_data.parts) + Len(primary_data.repairs) + Len(primary_data.blogs)

VectorCall(collection, query, n_results) == [collection |-> collection, query |-> query, n_results |-> n_results]

\* a vector query whose documents are used whether or not the call raised
vector_query_ignoring_failure(collection, query, n_results, vec) ==
    Rows(collection, query, Min(n_results, vec.docs), vec.none_content)

vector_query(collection, query, n_results, vec) ==
    IF vec.raises THEN <<>> ELSE Rows(collection, query, Min(n_results, vec.docs), vec.none_content)

\* lines 417-473: the supplementary bundle and the vector queries issued
_fetch_vector_context(query_info, primary_data, vec) ==
    IF total_primary_results(primary_data) < 3
    THEN IF query_info.type \in {"part_search", "specific_part", "compatibility"}
         THEN [additional_context |-> [parts |-> vector_query("parts_collection", query_info.original_query, 5, vec), repairs |-> <<>>, blogs |-> <<>>],
               vector_calls |-> <<VectorCall("parts_collection", query_info.original_query, 5)>>]
         ELSE IF query_info.type \in {"troubleshooting", "educational"}
         THEN [additional_context |-> [parts |-> <<>>, repairs |-> vector_query("repairs_collection", query_info.original_query, 3, vec), blogs |-> <<>>],
               vector_calls |-> <<VectorCall("repairs_collection", query_info.original_query, 3)>>]
         ELSE [additional_context |-> EmptyData, vector_calls |-> <<>>]
    ELSE [additional_context |-> EmptyData, vector_calls |-> <<>>]

\* one line of all_sources, or one block of the context string
Entry(kind, item) == [kind |-> kind, item |-> item]
NoItem == Record("", <<>>, 0)
Entries(kind, items) == [i \in 1..Len(items) |-> Entry(kind, items[i])]

\* lines 475-497
_combine_data(primary_data, additional_context) ==
    [primary_parts |-> primary_data.parts,
     primary_repairs |-> primary_data.repairs,
     primary_blogs |-> primary_data.blogs,
     additional_parts |-> additional_context.parts,
     additional_repairs |-> additional_context.repairs,
     additional_blogs |-> additional_context.blogs,
     all_sources |-> Entries("Part", primary_data.parts) \o Entries("Repair", primary_data.repairs) \o Entries("Article", primary_data.blogs)]

EmptyCombined == _combine_data(EmptyData, EmptyData)

\* the blocks without the per-group caps
context_parts_untruncated(combined_data) ==
    (IF Len(combined_data.primary_parts) > 0
     THEN <<Entry("=== PARTS FROM DATABASE ===", NoItem)>> \o Entries("part_info", combined_data.primary_parts)
     ELSE <<>>)
    \o (IF Len(combined_data.primary_repairs) > 0
        THEN <<Entry("=== REPAIR GUIDES ===", NoItem)>> \o Entries("repair_info", combined_data.primary_repairs)
        ELSE <<>>)
    \o (IF Len(combined_data.primary_blogs) > 0
        THEN <<Entry("=== EDUCATIONAL ARTICLES ===", NoItem)>> \o Entries("blog_info", combined_data.primary_blogs)
        ELSE <<>>)
    \o (IF Len(combined_data.primary_parts) + Len(combined_data.primary_repairs) < 2 /\ Len(combined_data.additional_parts) > 0
        THEN <<Entry("=== ADDITIONAL CONTEXT ===", NoItem)>> \o Entries("Additional Info", combined_data.additional_parts)
        ELSE <<>>)

\* the blocks with the supplementary gate at the vector fetch threshold
context_parts_gate_of_vector_fetch(combined_data) ==
    (IF Len(combined_data.primary_parts) > 0
     THEN <<Entry("=== PARTS FROM DATABASE ===", NoItem)>> \o Entries("part_info", Take(combined_data.primary_parts, 5))
     ELSE <<>>)
    \o (IF Len(combined_data.primary_repairs) > 0
        THEN <<Entry("=== REPAIR GUIDES ===", NoItem)>> \o Entries("repair_info", Take(combined_data.primary_repairs, 3))
        ELSE <<>>)
    \o (IF Len(combined_data.primary_blogs) > 0
        THEN <<Entry("=== EDUCATIONAL ARTICLES ===", NoItem)>> \o Entries("blog_info", Take(combined_data.primary_blogs, 2))
        ELSE <<>>)
    \o (IF Len(combined_data.primary_parts) + Len(combined_data.primary_repairs) < 3 /\ Len(combined_data.additional_parts) > 0
        THEN <<Entry("=== ADDITIONAL CONTEXT ===", NoItem)>> \o Entries("Additional Info", Take(combined_data.additional_parts, 2))
        ELSE <<>>)

\* lines 567-625: context_parts, the blocks joined into the context string
context_parts(combined_data) ==
    (IF Len(combined_data.primary_parts) > 0
     THEN <<Entry("=== PARTS FROM DATABASE ===", NoItem)>> \o Entries("part_info", Take(combined_data.primary_parts, 5))
     ELSE <<>>)
    \o (IF Len(combined_data.primary_repairs) > 0
        THEN <<Entry("=== REPAIR GUIDES ===", NoItem)>> \o Entries("repair_info", Take(combined_data.primary_repairs, 3))
        ELSE <<>>)
    \o (IF Len(combined_data.primary_blogs) > 0
        THEN <<Entry("=== EDUCATIONAL ARTICLES ===", NoItem)>> \o Entries("blog_info", Take(combined_data.primary_blogs, 2))
        ELSE <<>>)
    \o (IF Len(combined_data.primary_parts) + Len(combined_data.primary_repairs) < 2 /\ Len(combined_data.additional_parts) > 0
        THEN <<Entry("=== ADDITIONAL CONTEXT ===", NoItem)>> \o Entries("Additional Info", Take(combined_data.additional_parts, 2))
        ELSE <<>>)

\* lines 614 and 622: blog.get('excerpt', 'No excerpt')[:150] and
\* item.get('content', '')[:200] slice the value of a key that is present,
\* and raise TypeError when that value is None
context_raises(combined_data) ==
    \/ \E i \in 1..Min(2, Len(combined_data.primary_blogs)) : combined_data.primary_blogs[i].text = "None"
    \/ /\ Len(combined_data.primary_parts) + Len(combined_data.primary_repairs) < 2
       /\ \E i \in 1..Min(2, Len(combined_data.additional_parts)) : combined_data.additional_parts[i].text = "None"

\* the context string as its blocks, or the exception
_build_context_string(combined_data) ==
    IF context_raises(combined_data) THEN [raised |-> TRUE, context |-> <<>>]
    ELSE IF Len(context_parts(combined_data)) > 0 THEN [raised |-> FALSE, context |-> context_parts(combined_data)]
    ELSE [raised |-> FALSE, context |-> <<Entry("No relevant data found in database.", NoItem)>>]

\* the text of a context: for each block its heading or label and the
\* record it prints
EntryText(entry) ==
    IF entry.item = NoItem THEN <<entry.kind>>
    ELSE <<entry.kind, entry.item.src>> \o entry.item.key \o <<DigitSeq[entry.item.rank + 1]>>
ContextText(context) == Flatten([i \in 1..Len(context) |-> EntryText(context[i])])

\* lines 513-525: the f-string of the current query, the context and the
\* fixed instructions
user_message(user_query, context) ==
    <<"User Query: ">> \o user_query \o <<"Available Data from Database:">> \o ContextText(context)
    \o <<"CRITICAL INSTRUCTIONS - YOU MUST FOLLOW THESE: ...">>

\* lines 499-565: the messages sent, and the string returned for each thing
\* the generator call can do; an exception while the context is built is
\* caught by the handler of line 559, and the generator is not called
generator_messages(user_query, context, conversation_history) ==
    <<Message("system", SystemPrompt)>> \o conversation_history \o <<Message("user", user_message(user_query, context))>>

_generate_response(user_query, combined_data, conversation_history, gen) ==
    IF _build_context_string(combined_data).raised THEN GenerateFallback
    ELSE IF gen = "text" THEN GeneratedText
    ELSE IF gen = "none_content" THEN None
    ELSE GenerateFallback

\* lines 175-185: the dict process_query returns
AgentResult(success, response, error, query_type, primary_db_results, vector_db_results, total_sources) ==
    [success |-> success, response |-> response, error |-> error, query_type |-> query_type,
     primary_db_results |-> primary_db_results, vector_db_results |-> vector_db_results, total_sources |-> total_sources]

process_query_result(query_info, primary_data, additional_context, combined_data, response) ==
    AgentResult(TRUE, response, Missing, query_info.type,
                Len(primary_data.parts) + Len(primary_data.repairs),
                Len(additional_context.parts) + Len(additional_context.repairs),
                Len(combined_data.all_sources))

----------------------------------------------------------------------------
(* State.  conversations is memory_manager.conversations, the dict shared   *)
(* by every request.  req[p] holds the locals of the process_query call in  *)
(* slot p and the calls it has made; nreq counts the calls started and      *)
(* uuids the calls of uuid.uuid4() made.  What a collaborator does at a     *)
(* step (the classifier's answer, the rows of the store, the vector query,  *)
(* the generator) is a parameter of the step.                               *)

VARIABLES conversations, req, nreq, uuids

vars == <<conversations, req, nreq, uuids>>

Procs == {1}

NoResult == AgentResult(FALSE, <<>>, Missing, "", 0, 0, 0)
NoOut == [response |-> <<>>, thread_id |-> NoThread, error |-> Missing, query_type |-> ""]

IdleReq ==
    [pc |-> "idle",
     caller |-> "",
     user_query |-> <<>>,
     thread_id |-> NoThread,
     conversation_history |-> <<>>,
     llm_raised |-> FALSE,
     llm_type |-> "",
     query_info |-> QueryInfo("", None, <<>>, <<>>, ""),
     primary_data |-> EmptyData,
     primary_raised |-> FALSE,
     db_calls |-> <<>>,
     additional_context |-> EmptyData,
     vector_calls |-> <<>>,
     vector_raised |-> FALSE,
     combined_data |-> EmptyCombined,
     context |-> <<>>,
     gen_messages |-> <<>>,
     gen_outcome |-> "",
     response |-> <<>>,
     result |-> NoResult,
     regenerated_from |-> <<>>,
     out |-> NoOut]

Init ==
    /\ conversations = [t \in {} |-> 0]
    /\ req = [p \in Procs |-> IdleReq]
    /\ nreq = 0
    /\ uuids = 0

\* a call that needs a new id is made while the pool has one left
UuidLeft == uuids < Len(UuidPool)

\* the coroutine of a request runs on the event loop of rag_main.py and
\* gives way at its awaits only: where it waits for the classifier (line
\* 200) and for the generator (line 530); another call of the orchestrator
\* runs when every request is at one of them, has returned or has not started
AtAwait(r) == r.pc \in {"idle", "done", "analyze", "awaiting_generator"}

\* OptimizedRAGOrchestrator.process_query, lines 640-656: the thread is
\* created when no id is given or the id is unknown, the query is stored,
\* the history is read and the agent's process_query is entered
process_query_enter(p, user_query, thread_id) ==
    /\ req[p].pc \in {"idle", "done"}
    /\ nreq < MaxRequests
    /\ thread_id = NoThread => UuidLeft
    /\ LET unknown == thread_id = NoThread \/ thread_id \notin DOMAIN conversations
           tid == IF unknown THEN NewThreadId(thread_id, FreshUuid(uuids)) ELSE thread_id
           created == IF unknown THEN create_conversation(conversations, thread_id, FreshUuid(uuids)) ELSE conversations
           stored == add_message(created, tid, "user", user_query)
           messages_for_llm == NonSystem(get_messages_for_llm(stored, tid))
       IN /\ conversations' = stored
          /\ req' = [req EXCEPT ![p] = [IdleReq EXCEPT !.pc = "analyze",
                                                      !.caller = "orchestrator",
                                                      !.user_query = user_query,
                                                      !.thread_id = tid,
                                                      !.conversation_history = SubSeq(messages_for_llm, 1, Len(messages_for_llm) - 1)]]
    /\ nreq' = nreq + 1
    /\ uuids' = IF thread_id = NoThread THEN uuids + 1 ELSE uuids

\* process_query entered when no other request is in flight
Start(p, user_query, thread_id) ==
    /\ \A o \in Procs : req[o].pc \in {"idle", "done"}
    /\ process_query_enter(p, user_query, thread_id)

\* OptimizedRAGAgent.process_query called directly, with no history
AgentStart(p, user_query) ==
    /\ req[p].pc \in {"idle", "done"}
    /\ req' = [req EXCEPT ![p] = [IdleReq EXCEPT !.pc = "analyze", !.caller = "direct", !.user_query = user_query]]
    /\ UNCHANGED <<conversations, nreq, uuids>>

\* Step 1, _analyze_query
Analyze(p, llm) ==
    /\ req[p].pc = "analyze"
    /\ \E query_info \in _analyze_query(req[p].user_query, llm) :
          req' = [req EXCEPT ![p].pc = "primary",
                             ![p].llm_raised = llm_analysis_raises(llm),
                             ![p].llm_type = IF llm_analysis_raises(llm) THEN "" ELSE llm.type,
                             ![p].query_info = query_info]
    /\ UNCHANGED <<conversations, nreq, uuids>>

\* a primary fetch whose exception ends the request instead of being caught
FetchPrimary_propagating(p, store) ==
    /\ req[p].pc = "primary"
    /\    LET fetched == _fetch_primary_data(req[p].query_info, store)
          IN req' = [req EXCEPT ![p].pc = IF fetched.raised THEN "agent_return" ELSE "vector",
                                ![p].primary_data = fetched.primary_data,
                                ![p].primary_raised = fetched.raised,
                                ![p].db_calls = fetched.db_calls]
    /\ UNCHANGED <<conversations, nreq, uuids>>

\* Step 2, _fetch_primary_data
FetchPrimary(p, store) ==
    /\ req[p].pc = "primary"
    /\    LET fetched == _fetch_primary_data(req[p].query_info, store)
          IN req' = [req EXCEPT ![p].pc = "vector",
                                ![p].primary_data = fetched.primary_data,
                                ![p].primary_raised = fetched.raised,
                                ![p].db_calls = fetched.db_calls]
    /\ UNCHANGED <<conversations, nreq, uuids>>

\* Step 3, _fetch_vector_context
FetchVector(p, vec) ==
    /\ req[p].pc = "vector"
    /\    LET fetched == _fetch_vector_context(req[p].query_info, req[p].primary_data, vec)
          IN req' = [req EXCEPT ![p].pc = "combine",
                                ![p].additional_context = fetched.additional_context,
                                ![p].vector_calls = fetched.vector_calls,
                                ![p].vector_raised = Len(fetched.vector_calls) > 0 /\ vec.raises]
    /\ UNCHANGED <<conversations, nreq, uuids>>

\* Step 4, _combine_data
Combine(p) ==
    /\ req[p].pc = "combine"
    /\ req' = [req EXCEPT ![p].pc = "generate",
                          ![p].combined_data = _combine_data(req[p].primary_data, req[p].additional_context)]
    /\ UNCHANGED <<conversations, nreq, uuids>>

\* _generate_response up to its await, lines 499-536, on the locals of one
\* request: the context and the messages are built and sent to the generator,
\* and the request waits for the reply; when building the context raises, no
\* message is sent, the generator is not called and the fallback is the
\* response (handler of line 559)
generate_request(r) ==
    LET built == _build_context_string(r.combined_data)
    IN IF built.raised
       THEN [r EXCEPT !.pc = "agent_return",
                      !.context = built.context,
                      !.gen_messages = <<>>,
                      !.gen_outcome = "not_called",
                      !.response = _generate_response(r.user_query, r.combined_data, r.conversation_history, "not_called")]
       ELSE [r EXCEPT !.pc = "awaiting_generator",
                      !.context = built.context,
                      !.gen_messages = generator_messages(r.user_query, built.context, r.conversation_history)]

\* Step 5, _generate_response, first half: the request is sent (line 530)
Generate(p) ==
    /\ req[p].pc = "generate"
    /\ req' = [req EXCEPT ![p] = generate_request(@)]
    /\ UNCHANGED <<conversations, nreq, uuids>>

\* a reply step that sends the request again when the call fails
GeneratorReply_again_on_failure(p, gen) ==
    /\ req[p].pc = "awaiting_generator"
    /\ req' = [req EXCEPT ![p].pc = IF gen = "text" THEN "agent_return" ELSE "generate",
                          ![p].gen_outcome = gen,
                          ![p].response = _generate_response(req[p].user_query, req[p].combined_data, req[p].conversation_history, gen)]
    /\ UNCHANGED <<conversations, nreq, uuids>>

\* Step 5, second half, lines 530-565: the generator's reply, or the
\* exception of the call, resumes the request; the reply's content or the
\* fallback is the response
GeneratorReply(p, gen) ==
    /\ req[p].pc = "awaiting_generator"
    /\ req' = [req EXCEPT ![p].pc = "agent_return",
                          ![p].gen_outcome = gen,
                          ![p].response = _generate_response(req[p].user_query, req[p].combined_data, req[p].conversation_history, gen)]
    /\ UNCHANGED <<conversations, nreq, uuids>>

\* lines 175-185: process_query returns.  No collaborator outcome reaches
\* the handler of lines 187-194: each step above catches what it raises.
AgentReturn(p) ==
    /\ req[p].pc = "agent_return"
    /\ req' = [req EXCEPT ![p].pc = IF req[p].caller = "orchestrator" THEN "orch_finish" ELSE "done",
                          ![p].result = process_query_result(req[p].query_info, req[p].primary_data,
                                                             req[p].additional_context, req[p].combined_data, req[p].response)]
    /\ UNCHANGED <<conversations, nreq, uuids>>

StatsError == <<"'NoneType' object has no attribute 'split'">>

\* OptimizedRAGOrchestrator.process_query, lines 658-704: the response is
\* stored; on the success branch get_conversation_stats may raise, and the
\* handler then stores and returns its own error response
OrchFinish(p) ==
    /\ req[p].pc = "orch_finish"
    /\ LET tid == req[p].thread_id
           result == req[p].result
           stored == add_message(conversations, tid, "assistant", result.response)
           raises == result.success /\ StatsRaises(stored, tid)
       IN /\ conversations' = IF raises THEN add_message(stored, tid, "assistant", OrchestratorFallback) ELSE stored
          /\ req' = [req EXCEPT ![p].pc = "done",
                                ![p].out = IF raises
                                           THEN [response |-> OrchestratorFallback, thread_id |-> tid, error |-> StatsError, query_type |-> "Missing"]
                                           ELSE IF result.success
                                           THEN [response |-> result.response, thread_id |-> tid, error |-> Missing, query_type |-> result.query_type]
                                           ELSE [response |-> result.response, thread_id |-> tid, error |-> result.error, query_type |-> "Missing"]]
    /\ UNCHANGED <<nreq, uuids>>

\* the whole program: process_query calls of the orchestrator, one at a
\* time, against collaborators that do one of a few things
Next ==
    \E p \in Procs :
        \/ \E user_query \in OrchQueries, thread_id \in {NoThread} \cup CallerThreads : Start(p, user_query, thread_id)
        \/ \E llm \in OrchLLMOutcomes : Analyze(p, llm)
        \/ \E store \in OrchStores : FetchPrimary(p, store)
        \/ \E vec \in OrchVectorOutcomes : FetchVector(p, vec)
        \/ Combine(p)
        \/ Generate(p)
        \/ \E gen \in GenOutcomes : GeneratorReply(p, gen)
        \/ AgentReturn(p)
        \/ OrchFinish(p)

Spec == Init /\ [][Next]_vars

\* regenerate_last_response, lines 714-745: the content of the thread's last
\* user message, None when it has none
LastUserQuery(messages) ==
    IF CountRole(messages, "user") = 0 THEN None
    ELSE messages[CHOOSE i \in 1..Len(messages) :
                     messages[i].role = "user" /\ \A j \in (i + 1)..Len(messages) : messages[j].role # "user"].content

\* regenerate_last_response: an unknown thread and a thread without a user
\* query are answered at once; otherwise the last exchange is removed and
\* process_query is entered with the last user query (lines 640-656), all
\* before the first await
Regenerate(p, thread_id) ==
    /\ \A o \in Procs : req[o].pc \in {"idle", "done"}
    /\ nreq < MaxRequests
    /\ nreq' = nreq + 1
    /\ uuids' = uuids
    /\ IF thread_id = NoThread \/ thread_id \notin DOMAIN conversations
       THEN /\ req' = [req EXCEPT ![p] = [IdleReq EXCEPT !.pc = "done", !.caller = "regenerate", !.thread_id = thread_id,
                                                         !.out = [response |-> <<"No conversation found to regenerate.">>,
                                                                  thread_id |-> thread_id, error |-> Missing, query_type |-> "Missing"]]]
            /\ UNCHANGED conversations
       ELSE IF LastUserQuery(conversations[thread_id].messages) \in {None, <<>>}
       THEN /\ req' = [req EXCEPT ![p] = [IdleReq EXCEPT !.pc = "done", !.caller = "regenerate", !.thread_id = thread_id,
                                                         !.regenerated_from = conversations[thread_id].messages,
                                                         !.out = [response |-> <<"No previous query to regenerate.">>,
                                                                  thread_id |-> thread_id, error |-> Missing, query_type |-> "Missing"]]]
            /\ UNCHANGED conversations
       ELSE LET last_user_query == LastUserQuery(conversations[thread_id].messages)
                stored == add_message(remove_last_exchange(conversations, thread_id), thread_id, "user", last_user_query)
                messages_for_llm == NonSystem(get_messages_for_llm(stored, thread_id))
            IN /\ conversations' = stored
               /\ req' = [req EXCEPT ![p] = [IdleReq EXCEPT !.pc = "analyze",
                                                           !.caller = "orchestrator",
                                                           !.user_query = last_user_query,
                                                           !.thread_id = thread_id,
                                                           !.regenerated_from = conversations[thread_id].messages,
                                                           !.conversation_history = SubSeq(messages_for_llm, 1, Len(messages_for_llm) - 1)]]

\* OptimizedRAGOrchestrator.reset_conversation(thread_id), lines 706-712:
\* with an id, ConversationMemory.reset_conversation (the thread is deleted
\* when known and created); without one, create_conversation() under a new
\* uuid, which is what reset_conversation does with None as well.  The call
\* is synchronous: it runs while the requests in flight wait.
ResetConversation(thread_id) ==
    /\ \A o \in DOMAIN req : AtAwait(req[o])
    /\ thread_id = NoThread => UuidLeft
    /\ conversations' = reset_conversation(conversations, thread_id, FreshUuid(uuids))
    /\ uuids' = IF thread_id = NoThread THEN uuids + 1 ELSE uuids
    /\ UNCHANGED <<req, nreq>>

\* OptimizedRAGOrchestrator.cleanup_old_conversations(max_age_hours), lines
\* 751-753: the threads quiet since before the cutoff are deleted, also the
\* thread of a request in flight
CleanupOldConversations(cutoff) ==
    /\ \A o \in DOMAIN req : AtAwait(req[o])
    /\ conversations' = cleanup_old_conversations(conversations, cutoff)
    /\ UNCHANGED <<req, nreq, uuids>>

\* process_query and regenerate_last_response calls of the orchestrator, one
\* at a time, and reset_conversation and cleanup_old_conversations calls
\* between them and while one waits
NextRegenerate ==
    \/ Next
    \/ \E p \in Procs, thread_id \in {NoThread} \cup CallerThreads : Regenerate(p, thread_id)
    \/ \E thread_id \in {NoThread} \cup CallerThreads : ResetConversation(thread_id)
    \/ \E cutoff \in 1..Now(conversations) : CleanupOldConversations(cutoff)

SpecRegenerate == Init /\ [][NextRegenerate]_vars

\* the agent alone: process_query calls against every collaborator outcome
NextAgent ==
    \E p \in Procs :
        \/ \E user_query \in Queries : AgentStart(p, user_query)
        \/ \E llm \in LLMOutcomes : Analyze(p, llm)
        \/ \E store \in Stores : FetchPrimary(p, store)
        \/ \E vec \in VectorOutcomes : FetchVector(p, vec)
        \/ Combine(p)
        \/ Generate(p)
        \/ \E gen \in GenOutcomes : GeneratorReply(p, gen)
        \/ AgentReturn(p)

SpecAgent == Init /\ [][NextAgent]_vars

----------------------------------------------------------------------------
(* The rule-based classifier on its own: _rule_based_analyze_query applied  *)
(* to each query of ClassifierQueries.                                      *)

InitClassify ==
    /\ conversations = [t \in {} |-> 0]
    /\ \E query \in ClassifierQueries :
          req = [p \in Procs |-> [IdleReq EXCEPT !.pc = "classify", !.user_query = query]]
    /\ nreq = 0
    /\ uuids = 0

RuleBasedClassify(p) ==
    /\ req[p].pc = "classify"
    /\ \E query_info \in _rule_based_analyze_query(req[p].user_query) :
          req' = [req EXCEPT ![p].pc = "classified", ![p].query_info = query_info]
    /\ UNCHANGED <<conversations, nreq, uuids>>

NextClassify == \E p \in Procs : RuleBasedClassify(p)

SpecClassify == InitClassify /\ [][NextClassify]_vars

----------------------------------------------------------------------------
(* Properties *)

Returned(p) == req[p].pc \in {"orch_finish", "done"}
Analyzed(p) == req[p].pc \notin {"idle", "analyze", "classify"}
VectorDecided(p) == req[p].pc \in {"combine", "generate", "awaiting_generator", "agent_return", "orch_finish", "done"}
Generated(p) == req[p].pc \in {"agent_return", "orch_finish", "done"}
\* the context was built and the messages were sent to the generator
GeneratorCalled(p) == req[p].pc = "awaiting_generator" \/ (Generated(p) /\ req[p].gen_outcome \in GenOutcomes)

\* the records of one kind of block in a context, in the context's order
RECURSIVE ContextItems(_, _)
ContextItems(context, kind) ==
    IF Len(context) = 0 THEN <<>>
    ELSE IF context[1].kind = kind THEN <<context[1].item>> \o ContextItems(Tail(context), kind)
    ELSE ContextItems(Tail(context), kind)

NoDuplicates(seq) == \A i, j \in 1..Len(seq) : seq[i] = seq[j] => i = j

\* C1: every result process_query returns, from the agent and from the
\* orchestrator, carries a response that is a string.
C1_ResponseIsAlwaysString ==
    \A p \in Procs :
        /\ Returned(p) => IsStr(req[p].result.response)
        /\ (req[p].pc = "done" /\ req[p].caller = "orchestrator") => IsStr(req[p].out.response)

\* C2: when the generator call raises or returns an empty or invalid
\* payload, the agent's result carries a fallback response string and is
\* marked as failed: success is false and an error field is present.
C2_GenerationFailureIsMarkedFailed ==
    \A p \in Procs :
        (Returned(p) /\ req[p].gen_outcome # "text") =>
            /\ req[p].result.response \in {GenerateFallback, ProcessFallback}
            /\ req[p].result.success = FALSE
            /\ req[p].result.error # Missing

\* C3: when the LLM classification raises, the analysis _analyze_query
\* hands to the fetch stage is a result of the rule-based classifier for the
\* same query, and process_query returns a result that is not an error:
\* success, no error field, and the generator's text when the generator
\* returned one.
C3_ClassifierFailureFallsBackToRules ==
    \A p \in Procs :
        req[p].llm_raised =>
            /\ req[p].pc = "primary" => req[p].query_info \in _rule_based_analyze_query(req[p].user_query)
            /\ Returned(p) =>
                  /\ req[p].result.success
                  /\ req[p].result.error = Missing
                  /\ req[p].gen_outcome = "text" => req[p].result.response = GeneratedText

\* C3 witness: the classifier raised, the rules classified the part-number
\* query as specific_part, and the call returned the generator's text.
C3_Witness ==
    \E p \in Procs :
        /\ req[p].llm_raised
        /\ req[p].pc = "done"
        /\ req[p].query_info.type = "specific_part"
        /\ req[p].query_info.search_strategy = "rule_based"
        /\ req[p].result.success
        /\ req[p].result.response = GeneratedText

\* C4: whenever the generator returns a text, the response returned to the
\* caller, by the agent and by the orchestrator, is that text.
C4_GeneratorTextIsReturnedVerbatim ==
    \A p \in Procs :
        (req[p].pc = "done" /\ req[p].gen_outcome = "text") =>
            /\ req[p].result.response = GeneratedText
            /\ req[p].caller = "orchestrator" => req[p].out.response = GeneratedText

\* C5: the intent of every analysis that reaches the fetch stage, and the
\* query_type reported, is one of the five intents; an LLM answer whose
\* type is missing or invalid gives part_search.
C5_IntentIsOneOfFive ==
    \A p \in Procs :
        /\ Analyzed(p) => req[p].query_info.type \in ValidTypes
        /\ (Analyzed(p) /\ ~req[p].llm_raised /\ req[p].llm_type \notin ValidTypes) => req[p].query_info.type = "part_search"
        /\ Returned(p) => req[p].result.query_type \in ValidTypes

\* C6: the rule-based classifier returns one of the five intents and a
\* key_terms list that is not None and holds no entry twice.
C6_RuleBasedIntentAndUniqueTerms ==
    \A p \in Procs :
        req[p].pc = "classified" =>
            /\ req[p].query_info.type \in ValidTypes
            /\ req[p].query_info.key_terms # None
            /\ NoDuplicates(req[p].query_info.key_terms)

\* C6 witness: a classified query whose collected terms held a duplicate
\* that the returned key_terms no longer hold.
C6_Witness ==
    \E p \in Procs :
        /\ req[p].pc = "classified"
        /\ Len(rule_based_collected_terms(req[p].user_query)) > Len(req[p].query_info.key_terms)
        /\ Len(req[p].query_info.key_terms) > 0

ContainsModelOrPs(query) == Contains(Lower(query), <<"m","o","d","e","l">>) \/ Contains(Lower(query), <<"p","s">>)
HasWord(query, Test(_)) == LET words == Words(query) IN \E i \in 1..Len(words) : Test(words[i])
\* the pattern as the claim words it: an optional "PS" before digits, or two
\* upper-case letters before digits
ClaimedPartNumberWord(w) == (Len(w) >= 1 /\ AllDigit(w, 1, Len(w))) \/ FullPSDigits(w) \/ FullTwoUpperDigits(w)
\* the pattern of the code: two upper-case letters ("PS" is one case) before digits
TwoUpperPartNumberWord(w) == FullPSDigits(w) \/ FullTwoUpperDigits(w)

\* C7 as stated: a query with a word of optional "PS" and digits, or of two
\* upper-case letters and digits, together with "model" or "ps", is
\* classified specific_part.
C7_Original_OptionalPsPrefix ==
    \A p \in Procs :
        (req[p].pc = "classified" /\ HasWord(req[p].user_query, ClaimedPartNumberWord) /\ ContainsModelOrPs(req[p].user_query))
            => req[p].query_info.type = "specific_part"

\* C7 amended: a query with a whole word of two upper-case letters followed
\* by digits ("PS" and digits included, digits alone not), whose lower-cased
\* text contains "model" or "ps", is classified specific_part.
C7_TwoUpperAndDigitsIsSpecificPart ==
    \A p \in Procs :
        (req[p].pc = "classified" /\ HasWord(req[p].user_query, TwoUpperPartNumberWord) /\ ContainsModelOrPs(req[p].user_query))
            => req[p].query_info.type = "specific_part"

\* C7 witness: a query with a two-letter part number that is not a "PS"
\* number, and the word "model", classified specific_part.
C7_Witness ==
    \E p \in Procs :
        /\ req[p].pc = "classified"
        /\ HasWord(req[p].user_query, FullTwoUpperDigits)
        /\ ~HasWord(req[p].user_query, FullPSDigits)
        /\ Contains(Lower(req[p].user_query), <<"m","o","d","e","l">>)
        /\ req[p].query_info.type = "specific_part"

\* C8: a vector query is issued during a request exactly when the primary
\* bundle holds fewer than 3 items.
C8_VectorQueriedIffBelowThree ==
    \A p \in Procs :
        VectorDecided(p) => (Len(req[p].vector_calls) > 0 <=> total_primary_results(req[p].primary_data) < 3)

\* C9: the context handed to the generator holds, for each primary group,
\* the first min(n, cap) fetched records in their order (5 parts, 3
\* repairs, 2 articles), and at most 2 supplementary items.
C9_ContextHoldsFirstRecordsUpToCaps ==
    \A p \in Procs :
        GeneratorCalled(p) =>
            /\ ContextItems(req[p].context, "part_info") = Take(req[p].primary_data.parts, 5)
            /\ ContextItems(req[p].context, "repair_info") = Take(req[p].primary_data.repairs, 3)
            /\ ContextItems(req[p].context, "blog_info") = Take(req[p].primary_data.blogs, 2)
            /\ Len(ContextItems(req[p].context, "Additional Info")) <= 2

\* C9 witness: the store returned more parts than the cap and the vector
\* store more documents than the cap, and the context holds 5 and 2.
C9_Witness ==
    \E p \in Procs :
        /\ GeneratorCalled(p)
        /\ Len(req[p].primary_data.parts) > 5
        /\ Len(ContextItems(req[p].context, "part_info")) = 5

TruncatedPrimaryTotal(primary_data) ==
    Len(Take(primary_data.parts, 5)) + Len(Take(primary_data.repairs, 3)) + Len(Take(primary_data.blogs, 2))

\* C10: supplementary items are in the context only if the truncated
\* primary total (parts, repairs and articles) is below 2.
C10_SupplementaryOnlyBelowTwo ==
    \A p \in Procs :
        (GeneratorCalled(p) /\ Len(ContextItems(req[p].context, "Additional Info")) > 0)
            => TruncatedPrimaryTotal(req[p].primary_data) < 2

\* C10 witness: the vector store was queried and returned documents, the
\* primary total is 2, and the context holds no supplementary item.
C10_Witness ==
    \E p \in Procs :
        /\ GeneratorCalled(p)
        /\ Len(req[p].vector_calls) > 0
        /\ Len(req[p].additional_context.parts) > 0
        /\ TruncatedPrimaryTotal(req[p].primary_data) = 2
        /\ Len(ContextItems(req[p].context, "Additional Info")) = 0

PrimaryFetched(p) == req[p].pc \in {"vector", "combine", "generate", "awaiting_generator", "agent_return", "orch_finish", "done"}

\* the key terms of an analysis that have the specification's part-number
\* shape, in the order of key_terms
PartNumberShapedTerms(query_info) == SelectSeq(query_info.key_terms, ClaimedPartNumberWord)

\* C11: for an analysis with intent specific_part and at least one
\* part-number-shaped key term, the primary fetch issues one
\* get_part_by_number lookup for each part-number-shaped key term, in their
\* order, and no other call, and every part of the bundle is the record of
\* one of these lookups.
C11_OneLookupPerPartNumberShapedTerm ==
    \A p \in Procs :
        (/\ PrimaryFetched(p)
         /\ ~req[p].primary_raised
         /\ req[p].query_info.type = "specific_part"
         /\ Len(PartNumberShapedTerms(req[p].query_info)) > 0)
        => /\ req[p].db_calls =
                [i \in 1..Len(PartNumberShapedTerms(req[p].query_info)) |->
                    Call("get_part_by_number", PartNumberShapedTerms(req[p].query_info)[i], None, 0, None, None)]
           /\ Len(req[p].primary_data.parts) <= Len(req[p].db_calls)
           /\ \A j \in 1..Len(req[p].primary_data.parts) :
                \E i \in 1..Len(req[p].db_calls) :
                    req[p].primary_data.parts[j] = Record("get_part_by_number", req[p].db_calls[i].query, 1)

----------------------------------------------------------------------------
(* Two runs of OptimizedRAGAgent.process_query on the same query, against   *)
(* collaborators that answer both runs alike.  The runs are two calls of    *)
(* the same code, possibly in two processes: each takes its own result of   *)
(* list(set(key_terms)).                                                    *)

Runs == {1, 2}

\* the stores that answer the two runs
TwoRunStores ==
    [parts : {0, 2, MaxHits}, repairs : {1}, blogs : {1}, null_excerpts : {{}},
     compat : [CompatModels -> {0, 1}], part_numbers : {{q_part_number}}]

InitTwoRuns ==
    /\ conversations = [t \in {} |-> 0]
    /\ req = [r \in Runs |-> IdleReq]
    /\ nreq = 0
    /\ uuids = 0

BothStart(user_query) ==
    /\ \A r \in Runs : req[r].pc = "idle"
    /\ req' = [r \in Runs |-> [IdleReq EXCEPT !.pc = "analyze", !.caller = "direct", !.user_query = user_query]]
    /\ UNCHANGED <<conversations, nreq, uuids>>

BothAnalyze(llm) ==
    /\ \A r \in Runs : req[r].pc = "analyze"
    /\ \E query_info \in [Runs -> _analyze_query(req[1].user_query, llm)] :
          req' = [r \in Runs |-> [req[r] EXCEPT !.pc = "primary",
                                                !.llm_raised = llm_analysis_raises(llm),
                                                !.llm_type = IF llm_analysis_raises(llm) THEN "" ELSE llm.type,
                                                !.query_info = query_info[r]]]
    /\ UNCHANGED <<conversations, nreq, uuids>>

BothFetchPrimary(store) ==
    /\ \A r \in Runs : req[r].pc = "primary"
    /\ req' = [r \in Runs |->
                 LET fetched == _fetch_primary_data(req[r].query_info, store)
                 IN [req[r] EXCEPT !.pc = "vector",
                                   !.primary_data = fetched.primary_data,
                                   !.primary_raised = fetched.raised,
                                   !.db_calls = fetched.db_calls]]
    /\ UNCHANGED <<conversations, nreq, uuids>>

BothFetchVector(vec) ==
    /\ \A r \in Runs : req[r].pc = "vector"
    /\ req' = [r \in Runs |->
                 LET fetched == _fetch_vector_context(req[r].query_info, req[r].primary_data, vec)
                 IN [req[r] EXCEPT !.pc = "combine",
                                   !.additional_context = fetched.additional_context,
                                   !.vector_calls = fetched.vector_calls,
                                   !.vector_raised = Len(fetched.vector_calls) > 0 /\ vec.raises]]
    /\ UNCHANGED <<conversations, nreq, uuids>>

BothCombine ==
    /\ \A r \in Runs : req[r].pc = "combine"
    /\ req' = [r \in Runs |-> [req[r] EXCEPT !.pc = "generate",
                                             !.combined_data = _combine_data(req[r].primary_data, req[r].additional_context)]]
    /\ UNCHANGED <<conversations, nreq, uuids>>

\* each run builds its context and its messages and sends them (lines
\* 499-536); each then waits for its own reply
BothGenerate ==
    /\ \A r \in Runs : req[r].pc = "generate"
    /\ req' = [r \in Runs |-> generate_request(req[r])]
    /\ UNCHANGED <<conversations, nreq, uuids>>

NextTwoRuns ==
    \/ \E user_query \in Queries : BothStart(user_query)
    \/ \E llm \in LLMOutcomes : BothAnalyze(llm)
    \/ \E store \in TwoRunStores : BothFetchPrimary(store)
    \/ \E vec \in OrchVectorOutcomes : BothFetchVector(vec)
    \/ BothCombine
    \/ BothGenerate
    \/ \E r \in Runs, gen \in GenOutcomes : GeneratorReply(r, gen)

SpecTwoRuns == InitTwoRuns /\ [][NextTwoRuns]_vars

\* C12: two runs of process_query on the same query, with the same
\* classifier behaviour and the same store and vector answers, issue the
\* same store calls with the same search string and filters in the same
\* order, the same vector queries, and build the same context.
C12_TwoRunsSamePlanAndContext ==
    (\A r \in Runs : r \in DOMAIN req /\ req[r].pc = "agent_return") =>
        /\ req[1].db_calls = req[2].db_calls
        /\ req[1].vector_calls = req[2].vector_calls
        /\ req[1].context = req[2].context

\* the stages of one request, in the order of process_query
StageOrder == <<"idle", "analyze", "primary", "vector", "combine", "generate", "awaiting_generator", "agent_return", "orch_finish", "done">>
StageRank(pc) == CHOOSE i \in 1..Len(StageOrder) : StageOrder[i] = pc

\* one step of a request: a new request starts, or the request moves to its
\* next stage (an agent called directly returns without the orchestrator's
\* stage, and a request whose context cannot be built does not wait for the
\* generator)
OneWayStep(before, after) ==
    \/ before.pc \in {"idle", "done"} /\ after.pc = "analyze"
    \/ StageRank(after.pc) = StageRank(before.pc) + 1 /\ before.pc \notin {"done"}
    \/ before.pc = "generate" /\ after.pc = "agent_return" /\ after.gen_outcome = "not_called"
    \/ before.pc = "agent_return" /\ before.caller = "direct" /\ after.pc = "done"

\* C13: every step that changes a request moves it to the next stage of
\* classify, primary fetch, supplementary decision, fuse, generate, respond;
\* no stage is entered again or repeated, so the classifier and the generator
\* are each called at most once, and generation follows the fetches.
C13_RequestIsOneWay ==
    [][\A p \in Procs : req'[p] # req[p] => OneWayStep(req[p], req'[p])]_vars

\* C13 witness: a finished request whose classifier call and generator call
\* both failed, neither having been repeated.
C13_Witness ==
    \E p \in Procs :
        /\ req[p].pc = "done"
        /\ req[p].llm_raised
        /\ req[p].gen_outcome = "raise"
        /\ req[p].out.response = GenerateFallback

----------------------------------------------------------------------------
(* Requests against stores that may never answer.  The store calls of      *)
(* _fetch_primary_data and the collection queries of _fetch_vector_context  *)
(* are plain calls without a timeout: a call that is not answered leaves    *)
(* the request waiting in it, and no step of the code takes it out.         *)

\* the structured store never answers a call of the primary fetch
StoreNeverAnswers(p) ==
    /\ req[p].pc = "primary"
    /\ ~_fetch_primary_data(req[p].query_info, CHOOSE store \in TwoRunStores : TRUE).raised
    /\ Len(_fetch_primary_data(req[p].query_info, CHOOSE store \in TwoRunStores : TRUE).db_calls) > 0
    /\ req' = [req EXCEPT ![p].pc = "awaiting_store"]
    /\ UNCHANGED <<conversations, nreq, uuids>>

\* the vector store never answers the collection query
VectorNeverAnswers(p) ==
    /\ req[p].pc = "vector"
    /\ Len(_fetch_vector_context(req[p].query_info, req[p].primary_data, [raises |-> FALSE, docs |-> 0, none_content |-> {}]).vector_calls) > 0
    /\ req' = [req EXCEPT ![p].pc = "awaiting_vector"]
    /\ UNCHANGED <<conversations, nreq, uuids>>

NextAwait ==
    \E p \in Procs :
        \/ \E user_query \in OrchQueries : AgentStart(p, user_query)
        \/ \E llm \in OrchLLMOutcomes : Analyze(p, llm)
        \/ \E store \in TwoRunStores : FetchPrimary(p, store)
        \/ StoreNeverAnswers(p)
        \/ \E vec \in OrchVectorOutcomes : FetchVector(p, vec)
        \/ VectorNeverAnswers(p)
        \/ Combine(p)
        \/ Generate(p)
        \/ \E gen \in GenOutcomes : GeneratorReply(p, gen)
        \/ AgentReturn(p)

\* the event loop runs a request whenever it can take a step
SpecAwait == Init /\ [][NextAwait]_vars /\ WF_vars(NextAwait)

\* C14: every request that has started eventually returns its response,
\* also when a store never answers a call.
C14_EveryRequestReturns ==
    \A p \in Procs : (req[p].pc = "analyze") ~> (req[p].pc = "done")

\* the four tests of the rule-based classifier, each on its own
SpecificPartTest(query) == ContainsAny(Lower(query), SpecificWords) /\ HasWord(query, TwoUpperPartNumberWord)
CompatibilityTest(query) == ContainsAny(Lower(query), CompatibilityWords)
TroubleshootingTest(query) == ContainsAny(Lower(query), TroubleshootingWords)
EducationalTest(query) == ContainsAny(Lower(query), EducationalWords)

\* C15: the rule-based classifier gives a query the intent of the first test
\* it passes, in the order specific_part, compatibility, troubleshooting,
\* educational, and part_search when it passes none; a query with "model"
\* and no part-number word is compatibility whatever else it contains.
C15_IntentOfFirstPassingTest ==
    \A p \in Procs :
        req[p].pc = "classified" =>
            LET query == req[p].user_query
                type == req[p].query_info.type
            IN /\ SpecificPartTest(query) => type = "specific_part"
               /\ (~SpecificPartTest(query) /\ CompatibilityTest(query)) => type = "compatibility"
               /\ (~SpecificPartTest(query) /\ ~CompatibilityTest(query) /\ TroubleshootingTest(query)) => type = "troubleshooting"
               /\ (~SpecificPartTest(query) /\ ~CompatibilityTest(query) /\ ~TroubleshootingTest(query) /\ EducationalTest(query))
                    => type = "educational"
               /\ (~SpecificPartTest(query) /\ ~CompatibilityTest(query) /\ ~TroubleshootingTest(query) /\ ~EducationalTest(query))
                    => type = "part_search"
               /\ (Contains(Lower(query), <<"m","o","d","e","l">>) /\ ~HasWord(query, TwoUpperPartNumberWord)) => type = "compatibility"

\* C15 witness: a query with "model", no part-number word and a symptom
\* word or "install", classified compatibility.
C15_Witness ==
    \E p \in Procs :
        /\ req[p].pc = "classified"
        /\ Contains(Lower(req[p].user_query), <<"m","o","d","e","l">>)
        /\ ~HasWord(req[p].user_query, TwoUpperPartNumberWord)
        /\ TroubleshootingTest(req[p].user_query) \/ EducationalTest(req[p].user_query)
        /\ req[p].query_info.type = "compatibility"

\* the vector query the claim names for an intent
ClaimedVectorCall(query_info) ==
    IF query_info.type \in {"part_search", "specific_part", "compatibility"}
    THEN VectorCall("parts_collection", query_info.original_query, 5)
    ELSE VectorCall("repairs_collection", query_info.original_query, 3)

\* C16: when the primary bundle holds fewer than 3 items, exactly one vector
\* collection is queried: the parts collection with 5 results for
\* part_search, specific_part and compatibility, the repairs collection with
\* 3 results for troubleshooting and educational, with the original query as
\* its text.
C16_OneCollectionByIntent ==
    \A p \in Procs :
        (VectorDecided(p) /\ total_primary_results(req[p].primary_data) < 3) =>
            /\ req[p].vector_calls = <<ClaimedVectorCall(req[p].query_info)>>
            /\ req[p].vector_calls[1].query = req[p].user_query
            /\ req[p].query_info.type \in {"troubleshooting", "educational"} <=> req[p].vector_calls[1].collection = "repairs_collection"

\* the records a list of source lines or context blocks is about, in order
EntryItems(entries) == [i \in 1..Len(entries) |-> entries[i].item]

\* the records included in a context: the primary groups and the
\* supplementary items
IncludedRecords(context) ==
    ContextItems(context, "part_info") \o ContextItems(context, "repair_info")
    \o ContextItems(context, "blog_info") \o ContextItems(context, "Additional Info")

\* C17: the flattened source list holds one line for each record included
\* in the context handed to the generator, and no other line, so it is never
\* longer than the caps allow (5 parts, 3 repairs, 2 articles, 2
\* supplementary items); total_sources reports its length.
C17_SourceListMatchesContext ==
    \A p \in Procs :
        GeneratorCalled(p) =>
            /\ EntryItems(req[p].combined_data.all_sources) = IncludedRecords(req[p].context)
            /\ Len(req[p].combined_data.all_sources) <= 5 + 3 + 2 + 2
            /\ Returned(p) => req[p].result.total_sources = Len(IncludedRecords(req[p].context))

AllStrings(key_terms) == \A i \in 1..Len(key_terms) : IsStr(key_terms[i])

\* the calls and the bundle the claim describes for intent compatibility:
\* one search_compatible_parts call per key term with the model-number
\* pattern, with the analysis's appliance_type, and their results in order
CompatibilityFetchAsClaimed(r) ==
    LET terms == SelectSeq(r.query_info.key_terms, MatchModel)
    IN /\ r.db_calls = [i \in 1..Len(terms) |->
                          Call("search_compatible_parts", terms[i], r.query_info.appliance_type, 0, None, None)]
       /\ \E n \in [1..Len(terms) -> 0..MaxCompat] :
            r.primary_data.parts = Flatten([i \in 1..Len(terms) |-> Ranked("search_compatible_parts", terms[i], n[i])])
       /\ r.primary_data.repairs = <<>>
       /\ r.primary_data.blogs = <<>>
       /\ (r.user_query = q_compatible_model /\ r.llm_raised)
            => r.db_calls = <<Call("search_compatible_parts", t_model, None, 0, None, None)>>

\* C18 as stated: for every analysis with intent compatibility the primary
\* fetch calls search_compatible_parts once per key term with the
\* model-number pattern and for no other term, and the bundle's parts are
\* the results of these calls, in order.
C18_Original_EveryCompatibilityAnalysis ==
    \A p \in Procs :
        (PrimaryFetched(p) /\ req[p].query_info.type = "compatibility" /\ AllStrings(req[p].query_info.key_terms))
            => CompatibilityFetchAsClaimed(req[p])

\* C18 amended: the same for every analysis with intent compatibility and a
\* non-empty key_terms list; the scenario query is answered with the one
\* call for "GSS25GSHSS".
C18_CompatibilityWithKeyTerms ==
    \A p \in Procs :
        (/\ PrimaryFetched(p)
         /\ req[p].query_info.type = "compatibility"
         /\ AllStrings(req[p].query_info.key_terms)
         /\ Len(req[p].query_info.key_terms) > 0)
        => CompatibilityFetchAsClaimed(req[p])

\* C18 witness: a compatibility analysis with key terms of which some have
\* the model-number pattern and some do not, answered by one call per model
\* number, the first finding no row and the second finding rows.
C18_Witness ==
    \E p \in Procs :
        /\ PrimaryFetched(p)
        /\ req[p].query_info.type = "compatibility"
        /\ Len(req[p].db_calls) = 2
        /\ Len(req[p].query_info.key_terms) > 2
        /\ Len(req[p].primary_data.parts) = MaxCompat
        /\ req[p].primary_data.parts[1].key = req[p].db_calls[2].query

\* the key terms that are not brand names, compared in lower case
NonBrandTerms(key_terms) == SelectSeq(key_terms, LAMBDA term : Lower(term) \notin Range(brands))
Known(appliance_type) == appliance_type \notin {None, <<>>}

\* the two searches of a troubleshooting fetch, both with one search string
TroubleshootingCalls(r, search_string) ==
    r.db_calls =
        <<Call("search_repairs", search_string, r.query_info.appliance_type, 5, None, None),
          Call("search_parts", search_string, None, 5, None,
               IF Known(r.query_info.appliance_type) THEN r.query_info.appliance_type ELSE None)>>

\* C19 as stated: for intent troubleshooting the fetch issues one repair
\* search and one parts search, both with limit 5 and the appliance type,
\* and their search string is the key terms that are not brand names.
C19_Original_SearchStringIsNonBrandTerms ==
    \A p \in Procs :
        (PrimaryFetched(p) /\ req[p].query_info.type = "troubleshooting" /\ AllStrings(req[p].query_info.key_terms))
            => TroubleshootingCalls(req[p], Join(NonBrandTerms(req[p].query_info.key_terms)))

\* C19 amended: the same, where the search string is the key terms that are
\* not brand names when there is such a term, and otherwise the appliance
\* type, or "appliance" when it is unknown.
C19_NonBrandTermsOrApplianceType ==
    \A p \in Procs :
        (PrimaryFetched(p) /\ req[p].query_info.type = "troubleshooting" /\ AllStrings(req[p].query_info.key_terms))
            => TroubleshootingCalls(req[p],
                   IF Len(NonBrandTerms(req[p].query_info.key_terms)) > 0
                   THEN Join(NonBrandTerms(req[p].query_info.key_terms))
                   ELSE IF Known(req[p].query_info.appliance_type) THEN req[p].query_info.appliance_type
                   ELSE s_appliance)

\* C19 witness: a troubleshooting analysis with a brand among its key terms
\* whose two searches were issued with the other terms.
C19_Witness ==
    \E p \in Procs :
        /\ PrimaryFetched(p)
        /\ req[p].query_info.type = "troubleshooting"
        /\ Len(NonBrandTerms(req[p].query_info.key_terms)) > 0
        /\ Len(NonBrandTerms(req[p].query_info.key_terms)) < Len(req[p].query_info.key_terms)
        /\ Len(req[p].db_calls) = 2
        /\ req[p].db_calls[1].query = Join(NonBrandTerms(req[p].query_info.key_terms))

\* C20: for intent educational the primary fetch issues one article search
\* with limit 3 over all key terms, or over the original query when there
\* are none, and then one point lookup for each part-number-shaped key term;
\* the bundle holds the articles found and the parts found.
C20_ArticleSearchAndPartLookups ==
    \A p \in Procs :
        (PrimaryFetched(p) /\ req[p].query_info.type = "educational" /\ AllStrings(req[p].query_info.key_terms))
        => LET key_terms == req[p].query_info.key_terms
               search_string == IF Len(key_terms) > 0 THEN Join(key_terms) ELSE req[p].query_info.original_query
               shaped == PartNumberShapedTerms(req[p].query_info)
           IN /\ req[p].db_calls =
                    <<Call("search_blogs", search_string, None, 3, None, None)>>
                    \o [i \in 1..Len(shaped) |-> Call("get_part_by_number", shaped[i], None, 0, None, None)]
              /\ \E n \in 0..3 : \E none_text \in SUBSET (1..n) :
                    req[p].primary_data.blogs = Rows("search_blogs", search_string, n, none_text)
              /\ \A j \in 1..Len(req[p].primary_data.parts) :
                    \E i \in 1..Len(shaped) : req[p].primary_data.parts[j] = Record("get_part_by_number", shaped[i], 1)
              /\ req[p].primary_data.repairs = <<>>

----------------------------------------------------------------------------
\* C21: for intent part_search the primary fetch issues exactly one parts
\* search with limit 10, over all key terms joined by spaces or over the
\* original query when there are none, with the category filter set to the
\* appliance type when it is known and the brand filter set from the first
\* key term of the brand vocabulary (title-cased), and no brand filter when
\* no key term is a brand; the bundle holds the parts found and nothing else.
C21_OneSearchOverAllKeyTerms ==
    \A p \in Procs :
        (PrimaryFetched(p) /\ req[p].query_info.type = "part_search" /\ AllStrings(req[p].query_info.key_terms))
        => LET key_terms == req[p].query_info.key_terms
               search_string == IF Len(key_terms) > 0 THEN Join(key_terms) ELSE req[p].query_info.original_query
               brand_at == {i \in 1..Len(key_terms) : Lower(key_terms[i]) \in Range(brands)}
               brand == IF brand_at = {} THEN None
                        ELSE Title(key_terms[CHOOSE i \in brand_at : \A j \in brand_at : i <= j])
               category == IF Known(req[p].query_info.appliance_type) THEN req[p].query_info.appliance_type ELSE None
           IN /\ req[p].db_calls = <<Call("search_parts", search_string, None, 10, brand, category)>>
              /\ \E n \in 0..10 : req[p].primary_data.parts = Ranked("search_parts", search_string, n)
              /\ req[p].primary_data.repairs = <<>>
              /\ req[p].primary_data.blogs = <<>>

\* C21 witness: a part_search analysis with two brands among its key terms
\* and a known appliance type, whose one search carried the first brand and
\* the category and found parts.
C21_Witness ==
    \E p \in Procs :
        /\ PrimaryFetched(p)
        /\ req[p].query_info.type = "part_search"
        /\ Len(SelectSeq(req[p].query_info.key_terms, LAMBDA term : Lower(term) \in Range(brands))) = 2
        /\ Len(req[p].db_calls) = 1
        /\ req[p].db_calls[1].brand = <<"G","e">>
        /\ req[p].db_calls[1].category = s_dishwasher
        /\ Len(req[p].primary_data.parts) > 0

\* C22: when the vector query of a request raises, the supplementary bundle
\* is empty, the primary bundle reaches fusion unchanged, and the request
\* goes on to build its context from that bundle, call the generator and
\* return a successful result that counts the primary items.
C22_VectorFailureIsNotFatal ==
    \A p \in Procs :
        (VectorDecided(p) /\ req[p].vector_raised)
        => /\ req[p].additional_context = EmptyData
           /\ req[p].pc # "combine"
                => /\ req[p].combined_data.primary_parts = req[p].primary_data.parts
                   /\ req[p].combined_data.primary_repairs = req[p].primary_data.repairs
                   /\ req[p].combined_data.primary_blogs = req[p].primary_data.blogs
                   /\ req[p].combined_data.additional_parts = <<>>
                   /\ req[p].combined_data.additional_repairs = <<>>
           /\ Generated(p) => req[p].gen_outcome \in GenOutcomes \cup {"not_called"}
           /\ GeneratorCalled(p)
                => /\ ContextItems(req[p].context, "part_info") = Take(req[p].primary_data.parts, 5)
                   /\ ContextItems(req[p].context, "Additional Info") = <<>>
           /\ Returned(p)
                => /\ req[p].result.success
                   /\ req[p].result.primary_db_results = Len(req[p].primary_data.parts) + Len(req[p].primary_data.repairs)
                   /\ req[p].result.vector_db_results = 0

\* C22 witness: a request whose vector query raised although the store had
\* documents, and which returned the generator's text over a context holding
\* its primary parts.
C22_Witness ==
    \E p \in Procs :
        /\ Returned(p)
        /\ req[p].vector_raised
        /\ Len(req[p].vector_calls) = 1
        /\ Len(req[p].primary_data.parts) = 2
        /\ Len(ContextItems(req[p].context, "part_info")) = 2
        /\ req[p].gen_outcome = "text"
        /\ req[p].result.success
        /\ req[p].result.response = GeneratedText

C24_HistoryIsEarlierNonSystemMessages ==
    \A p \in Procs :
        (req[p].caller = "orchestrator" /\ req[p].pc # "idle")
        => /\ \A i \in 1..Len(req[p].conversation_history) : req[p].conversation_history[i].role # "system"
           /\ req[p].pc \notin {"done"}
                => conversations[req[p].thread_id].messages =
                      <<Message("system", MemorySystemPrompt)>> \o req[p].conversation_history
                      \o <<Message("user", req[p].user_query)>>
           /\ GeneratorCalled(p)
                => /\ req[p].gen_messages[1] = Message("system", SystemPrompt)
                   /\ CountRole(req[p].gen_messages, "system") = 1
                   /\ req[p].gen_messages[Len(req[p].gen_messages)] =
                         Message("user", user_message(req[p].user_query, req[p].context))
                   /\ SubSeq(req[p].gen_messages, 2, Len(req[p].gen_messages) - 1) = req[p].conversation_history

\* C24 witness: the second request of a thread, whose history holds the
\* welcome message and the first exchange, after its generator call.
C24_Witness ==
    \E p \in Procs :
        /\ GeneratorCalled(p)
        /\ req[p].caller = "orchestrator"
        /\ Len(req[p].conversation_history) = 3
        /\ req[p].conversation_history[2].role = "user"
        /\ req[p].conversation_history[3].role = "assistant"
        /\ Len(req[p].gen_messages) = 5

\* a thread whose last two messages are a user query and an assistant response
EndsWithExchange(messages) ==
    /\ Len(messages) >= 2
    /\ messages[Len(messages) - 1].role = "user"
    /\ messages[Len(messages)].role = "assistant"

\* a step that is a regenerate_last_response call of slot p
RegenerateCalled(p) ==
    /\ req[p].pc \in {"idle", "done"}
    /\ req'[p] # req[p]
    /\ req'[p].caller = "regenerate" \/ req'[p].regenerated_from # <<>>

\* C25: regenerate_last_response on a thread that ends with a user query and
\* an assistant response removes that pair and processes the same query
\* again: when the call returns, the thread is the thread as it was with its
\* last message replaced by one new assistant message, so it holds as many
\* user messages as before and the same last user query (for a thread that
\* no reset or cleanup call touched while the request waited).  On an unknown
\* thread, or a thread without a user message, the call answers that there
\* is nothing to regenerate and changes no conversation.
C25_RegenerateReplacesLastExchange ==
    [][\A p \in Procs :
        /\ (RegenerateCalled(p) /\ req'[p].thread_id \in DOMAIN conversations
             /\ EndsWithExchange(conversations[req'[p].thread_id].messages))
            => /\ req'[p].pc = "analyze"
               /\ req'[p].user_query = LastUserQuery(conversations[req'[p].thread_id].messages)
               /\ conversations'[req'[p].thread_id].messages =
                     SubSeq(conversations[req'[p].thread_id].messages, 1, Len(conversations[req'[p].thread_id].messages) - 1)
        /\ (RegenerateCalled(p)
             /\ (req'[p].thread_id \notin DOMAIN conversations
                 \/ CountRole(conversations[req'[p].thread_id].messages, "user") = 0))
            => /\ req'[p].pc = "done"
               /\ req'[p].out.response \in {<<"No conversation found to regenerate.">>, <<"No previous query to regenerate.">>}
               /\ conversations' = conversations
        /\ (req[p].pc = "orch_finish" /\ req'[p].pc = "done" /\ EndsWithExchange(req[p].regenerated_from)
             /\ req[p].thread_id \in DOMAIN conversations
             /\ conversations[req[p].thread_id].messages = SubSeq(req[p].regenerated_from, 1, Len(req[p].regenerated_from) - 1))
            => LET before == req[p].regenerated_from
                   after == conversations'[req[p].thread_id].messages
               IN /\ Len(after) = Len(before)
                  /\ SubSeq(after, 1, Len(after) - 1) = SubSeq(before, 1, Len(before) - 1)
                  /\ after[Len(after)].role = "assistant"
                  /\ CountRole(after, "user") = CountRole(before, "user")
                  /\ LastUserQuery(after) = LastUserQuery(before)
    ]_vars

\* C26: in every thread the messages stored after the welcome message
\* alternate user, assistant; each process_query call appends its user
\* message when it starts and exactly one assistant message when it returns,
\* whatever the agent and the generator did.
C26_MessagesAlternate ==
    /\ \A t \in DOMAIN conversations :
          \A i \in 3..Len(conversations[t].messages) :
              conversations[t].messages[i].role = IF (i - 3) % 2 = 0 THEN "user" ELSE "assistant"
    /\ \A p \in Procs :
          (req[p].pc = "done" /\ req[p].caller = "orchestrator")
              => conversations[req[p].thread_id].messages[Len(conversations[req[p].thread_id].messages) - 1]
                    = Message("user", req[p].user_query)

----------------------------------------------------------------------------
(* Two process_query calls of the orchestrator in flight at once.  The chat *)
(* endpoint awaits process_query for each HTTP request on one event loop,   *)
(* and every request shares the memory manager: a request gives way to the  *)
(* other at its awaits, and nothing makes a thread wait for its previous    *)
(* request.                                                                 *)

InitInterleaved ==
    /\ conversations = [t \in {} |-> 0]
    /\ req = [p \in Runs |-> IdleReq]
    /\ nreq = 0
    /\ uuids = 0

\* lines 640-656, as Start, entered while the other request waits
StartInterleaved(p, user_query, thread_id) ==
    /\ \A o \in Runs : AtAwait(req[o])
    /\ process_query_enter(p, user_query, thread_id)

NextInterleaved ==
    \E p \in Runs :
        \/ \E user_query \in OrchQueries, thread_id \in {NoThread} \cup CallerThreads : StartInterleaved(p, user_query, thread_id)
        \/ \E llm \in OrchLLMOutcomes : Analyze(p, llm)
        \/ \E store \in OrchStores : FetchPrimary(p, store)
        \/ \E vec \in OrchVectorOutcomes : FetchVector(p, vec)
        \/ Combine(p)
        \/ Generate(p)
        \/ \E gen \in GenOutcomes : GeneratorReply(p, gen)
        \/ AgentReturn(p)
        \/ OrchFinish(p)

SpecInterleaved == InitInterleaved /\ [][NextInterleaved]_vars

\* C27: with two requests of one thread in flight, every assistant message
\* stored after the welcome message directly follows a user message (the
\* one it answers), and the history handed to a request holds no user query
\* that was still unanswered: every user message in it is followed by its
\* assistant message.
C27_InterleavedRequestsKeepExchangesTogether ==
    /\ \A t \in DOMAIN conversations :
          \A i \in 3..Len(conversations[t].messages) :
              conversations[t].messages[i].role = "assistant" => conversations[t].messages[i - 1].role = "user"
    /\ \A p \in Runs :
          \A i \in 1..Len(req[p].conversation_history) :
              req[p].conversation_history[i].role = "user"
                  => /\ i < Len(req[p].conversation_history)
                     /\ req[p].conversation_history[i + 1].role = "assistant"

----------------------------------------------------------------------------
(* The conversation memory called directly: any sequence of                 *)
(* create_conversation, add_message, remove_last_exchange,                  *)
(* reset_conversation and cleanup_old_conversations, on a thread the caller *)
(* names and on threads the memory names itself.                            *)

\* a direct call of the memory is one more call started; no request runs
MemoryCall ==
    /\ nreq < MaxMemoryCalls
    /\ nreq' = nreq + 1
    /\ UNCHANGED req

\* create_conversation(thread_id); a known thread is overwritten
CreateConversation(thread_id) ==
    /\ MemoryCall
    /\ thread_id = NoThread => UuidLeft
    /\ conversations' = create_conversation(conversations, thread_id, FreshUuid(uuids))
    /\ uuids' = IF thread_id = NoThread THEN uuids + 1 ELSE uuids

\* add_message(thread_id, role, content); an unknown thread is created first
AddMessage(thread_id, role, content) ==
    /\ MemoryCall
    /\ thread_id \in DOMAIN conversations => Len(conversations[thread_id].messages) < MaxMessages
    /\ conversations' = add_message(conversations, thread_id, role, content)
    /\ UNCHANGED uuids

\* remove_last_exchange(thread_id)
RemoveLastExchange(thread_id) ==
    /\ MemoryCall
    /\ conversations' = remove_last_exchange(conversations, thread_id)
    /\ UNCHANGED uuids

\* reset_conversation(thread_id): the thread is deleted when known, and
\* created again; without an id the memory names the thread
MemoryResetConversation(thread_id) ==
    /\ MemoryCall
    /\ thread_id = NoThread => UuidLeft
    /\ conversations' = reset_conversation(conversations, thread_id, FreshUuid(uuids))
    /\ uuids' = IF thread_id = NoThread THEN uuids + 1 ELSE uuids

\* cleanup_old_conversations(max_age_hours)
MemoryCleanupOldConversations(cutoff) ==
    /\ MemoryCall
    /\ conversations' = cleanup_old_conversations(conversations, cutoff)
    /\ UNCHANGED uuids

NextMemory ==
    \/ \E thread_id \in {NoThread} \cup CallerThreads : CreateConversation(thread_id)
    \/ \E thread_id \in DOMAIN conversations \cup CallerThreads, role \in {"user", "assistant"} :
          AddMessage(thread_id, role, q_pump)
    \/ \E thread_id \in DOMAIN conversations \cup CallerThreads : RemoveLastExchange(thread_id)
    \/ \E thread_id \in {NoThread} \cup DOMAIN conversations \cup CallerThreads : MemoryResetConversation(thread_id)
    \/ \E cutoff \in 1..Now(conversations) : MemoryCleanupOldConversations(cutoff)

SpecMemory == Init /\ [][NextMemory]_vars

\* C28: in every state of the memory, every thread's message_count is 1 plus
\* the number of its messages with role "user".
C28_MessageCountIsOnePlusUserMessages ==
    \A t \in DOMAIN conversations :
        conversations[t].message_count = 1 + CountRole(conversations[t].messages, "user")

\* C28 witness: one thread holds two user messages after an exchange was
\* removed from it and a query added again, and another thread has lost its
\* welcome message to remove_last_exchange.
C28_Witness ==
    \E t, u \in DOMAIN conversations :
        /\ conversations[t].message_count = 3
        /\ Len(conversations[t].messages) = 4
        /\ conversations[t].messages[3].role = "user"
        /\ conversations[t].messages[4].role = "user"
        /\ Len(conversations[u].messages) = 1
        /\ conversations[u].message_count = 1

----------------------------------------------------------------------------
\* an analysis with intent specific_part or compatibility and no key term
LookupIntentWithoutKeyTerms(r) ==
    /\ r.query_info.type \in {"specific_part", "compatibility"}
    /\ Len(r.query_info.key_terms) = 0

\* C29 as stated: with intent specific_part or compatibility and an empty
\* key_terms list, the primary fetch makes no store call and the bundle's
\* parts are empty.
C29_Original_NoSearchWithoutKeyTerms ==
    \A p \in Procs :
        (PrimaryFetched(p) /\ LookupIntentWithoutKeyTerms(req[p]))
            => /\ req[p].db_calls = <<>>
               /\ req[p].primary_data.parts = <<>>

\* C29 amended: with intent specific_part or compatibility and an empty
\* key_terms list, the primary fetch makes no point lookup and no
\* compatibility lookup and falls through to the part_search strategy: one
\* parts search with limit 10 over the original query, with the category
\* filter of a known appliance type and no brand filter, whose matches are
\* the bundle's parts.
C29_EmptyKeyTermsFallThroughToPartSearch ==
    \A p \in Procs :
        (PrimaryFetched(p) /\ LookupIntentWithoutKeyTerms(req[p]))
            => /\ req[p].db_calls =
                    <<Call("search_parts", req[p].query_info.original_query, None, 10, None,
                           IF Known(req[p].query_info.appliance_type) THEN req[p].query_info.appliance_type ELSE None)>>
               /\ \E n \in 0..10 : req[p].primary_data.parts = Ranked("search_parts", req[p].query_info.original_query, n)
               /\ req[p].primary_data.repairs = <<>>
               /\ req[p].primary_data.blogs = <<>>

\* C29 witness: a compatibility analysis without key terms whose fetch
\* returned the parts of a full-text search over the original query.
C29_Witness ==
    \E p \in Procs :
        /\ PrimaryFetched(p)
        /\ req[p].query_info.type = "compatibility"
        /\ Len(req[p].query_info.key_terms) = 0
        /\ Len(req[p].db_calls) = 1
        /\ req[p].db_calls[1].fn = "search_parts"
        /\ Len(req[p].primary_data.parts) = MaxHits

----------------------------------------------------------------------------
(* RAGAssistantAgent (agents/rag_agent.py), the tool-calling agent.  A      *)
(* message is its role, its content, the tool_call_id of a tool message and *)
(* the ids of the tool calls of an assistant message; req[p] holds the      *)
(* locals of one process_query call, the completion requests it has sent    *)
(* and the success flag of its result.                                      *)

\* the keys of AVAILABLE_TOOLS (tools/database_tools.py)
AVAILABLE_TOOLS ==
    {"search_parts", "get_part_details", "search_compatible_parts", "search_repair_guides",
     "search_blog_content", "get_available_brands", "get_price_range"}

ToolAgentSystemPrompt == <<"<RAGAssistantAgent.system_prompt>">>
IntroductionMessage == <<"<introduction_message>">>
ToolResult == <<"<text the tool returned>">>
CleanResponseInstruction == <<"Now generate a clean, human-readable response based on the tool results. DO NOT include any tool call syntax, tokens, or internal formatting. Write as if you're speaking directly to a customer.">>

\* str(v) of a content: a string is itself, None is the text "None"
PyStr(v) == IF v = None THEN <<"N","o","n","e">> ELSE v

\* an item of conversation_history: a dict with the keys role and content
\* (is_message), or anything else
HistoryItem(is_message, role, content) == [is_message |-> is_message, role |-> role, content |-> content]

\* the conversation_history argument: not given (None), or a list; the list
\* RAGOrchestrator passes begins with its introduction message
ToolAgentHistories ==
    { [given |-> FALSE, items |-> <<>>],
      [given |-> TRUE, items |-> <<>>],
      [given |-> TRUE, items |-> <<HistoryItem(TRUE, "assistant", IntroductionMessage)>>],
      [given |-> TRUE, items |-> <<HistoryItem(TRUE, "assistant", IntroductionMessage),
                                   HistoryItem(TRUE, "user", q_pump),
                                   HistoryItem(TRUE, "assistant", None)>>],
      [given |-> TRUE, items |-> <<HistoryItem(TRUE, "assistant", IntroductionMessage),
                                   HistoryItem(FALSE, "", None),
                                   HistoryItem(TRUE, "user", q_pump)>>] }

\* the tool calls a reply can request: the name is a registered tool or not;
\* the arguments are a JSON object the tool accepts, a JSON object the tool
\* raises on, or a text json.loads raises on; the ids are the API's, unique
ToolCall(id, name, arguments) == [id |-> id, name |-> name, arguments |-> arguments]
RECURSIVE ToolCallLists(_)
ToolCallLists(n) ==
    IF n = 0 THEN {<<>>}
    ELSE ToolCallLists(n - 1)
         \cup { Append(calls, ToolCall(<<"call_1", "call_2", "call_3">>[Len(calls) + 1], name, arguments)) :
                  calls \in {c \in ToolCallLists(n - 1) : Len(c) = n - 1},
                  name \in {"search_parts", "get_part_details", "lookup_price"},
                  arguments \in {"accepted", "rejected", "malformed"} }

\* the content of a reply's message: None, the empty string or a text
ReplyContents == {None, <<>>, GeneratedText}

\* what a completion request does: it raises, or it returns a response
\* without choices, or a response whose first choice holds a content and the
\* requested tool calls (none: tool_calls is None)
ToolReply(raises, choices, content, tool_calls) ==
    [raises |-> raises, choices |-> choices, content |-> content, tool_calls |-> tool_calls]
ToolReplies ==
    {ToolReply(TRUE, FALSE, None, <<>>), ToolReply(FALSE, FALSE, None, <<>>)}
    \cup {ToolReply(FALSE, TRUE, content, tool_calls) :
            content \in ReplyContents, tool_calls \in ToolCallLists(MaxToolCalls)}

\* the second request carries no tools: its reply requests no tool call
FinalReplies == {reply \in ToolReplies : reply.tool_calls = <<>>}

ToolAgentMessage(role, content, tool_call_id, tool_calls) ==
    [role |-> role, content |-> content, tool_call_id |-> tool_call_id, tool_calls |-> tool_calls]

\* lines 181-191: every item of the history that is a dict with role and
\* content becomes a message with the content as a string; the others are
\* skipped
RECURSIVE history_messages(_)
history_messages(items) ==
    IF Len(items) = 0 THEN <<>>
    ELSE (IF items[1].is_message
          THEN <<ToolAgentMessage(items[1].role, PyStr(items[1].content), None, <<>>)>>
          ELSE <<>>) \o history_messages(Tail(items))

\* lines 249-268: the loop over the requested tool calls; json.loads and the
\* tool function can raise, which ends the loop with the messages appended
\* so far, and a tool message is appended only for a name that is in
\* AVAILABLE_TOOLS
RECURSIVE tool_messages(_)
tool_messages(tool_calls) ==
    IF Len(tool_calls) = 0 THEN [raised |-> FALSE, messages |-> <<>>]
    ELSE IF tool_calls[1].arguments = "malformed" THEN [raised |-> TRUE, messages |-> <<>>]
    ELSE IF tool_calls[1].name \in AVAILABLE_TOOLS /\ tool_calls[1].arguments = "rejected"
    THEN [raised |-> TRUE, messages |-> <<>>]
    ELSE LET rest == tool_messages(Tail(tool_calls))
         IN [raised |-> rest.raised,
             messages |-> (IF tool_calls[1].name \in AVAILABLE_TOOLS
                           THEN <<ToolAgentMessage("tool", ToolResult, tool_calls[1].id, <<>>)>> ELSE <<>>) \o rest.messages]

\* lines 327-341: the final content is sliced for the log line, which raises
\* on None; any other content is returned with success True
ReturnsSuccess(final_content) == final_content # None

\* lines 177-222: the messages are the system prompt, the messages of the
\* history and the user query, and the first completion request is sent
ToolAgentStart(p, user_query, conversation_history) ==
    /\ req[p].pc \in {"idle", "done"}
    /\ nreq < MaxRequests
    /\ nreq' = nreq + 1
    /\ req' = [req EXCEPT ![p] = [pc |-> "first_completion",
                                  user_query |-> user_query,
                                  messages |-> <<ToolAgentMessage("system", ToolAgentSystemPrompt, None, <<>>)>>
                                               \o (IF conversation_history.given
                                                   THEN history_messages(conversation_history.items) ELSE <<>>)
                                               \o <<ToolAgentMessage("user", PyStr(user_query), None, <<>>)>>,
                                  tool_calls |-> <<>>,
                                  completions |-> 1,
                                  second_request |-> <<>>,
                                  success |-> FALSE]]
    /\ UNCHANGED <<conversations, uuids>>

\* lines 215-350, from the first reply on: the request raises, or the reply
\* has no choice (line 225 raises); without tool calls the reply's content
\* is the answer; with tool calls the assistant message, the tool messages
\* and the instruction are appended and the second completion request is
\* sent; an exception ends the call with the error result (lines 343-350),
\* the messages as they were when it was raised
FirstReply(p, reply) ==
    /\ req[p].pc = "first_completion"
    /\ LET ran == tool_messages(reply.tool_calls)
           assistant_message == ToolAgentMessage("assistant",
                                                 IF reply.content \in {None, <<>>} THEN <<>> ELSE reply.content,
                                                 None,
                                                 [i \in 1..Len(reply.tool_calls) |-> reply.tool_calls[i].id])
           messages == req[p].messages \o <<assistant_message>> \o ran.messages
       IN req' = [req EXCEPT ![p] =
                    IF reply.raises \/ ~reply.choices
                    THEN [@ EXCEPT !.pc = "done", !.success = FALSE]
                    ELSE IF Len(reply.tool_calls) = 0
                    THEN [@ EXCEPT !.pc = "done", !.success = ReturnsSuccess(reply.content)]
                    ELSE IF ran.raised
                    THEN [@ EXCEPT !.pc = "done",
                                   !.tool_calls = reply.tool_calls,
                                   !.messages = messages,
                                   !.success = FALSE]
                    ELSE [@ EXCEPT !.pc = "second_completion",
                                   !.tool_calls = reply.tool_calls,
                                   !.messages = Append(messages, ToolAgentMessage("user", CleanResponseInstruction, None, <<>>)),
                                   !.second_request = Append(messages, ToolAgentMessage("user", CleanResponseInstruction, None, <<>>)),
                                   !.completions = 2]]
    /\ UNCHANGED <<conversations, nreq, uuids>>

\* lines 283-350, from the second reply on: the request raises, or the reply
\* has no choice (line 290 raises), or its content is the answer
SecondReply(p, reply) ==
    /\ req[p].pc = "second_completion"
    /\ req' = [req EXCEPT ![p].pc = "done",
                          ![p].success = ~reply.raises /\ reply.choices /\ ReturnsSuccess(reply.content)]
    /\ UNCHANGED <<conversations, nreq, uuids>>

NextToolAgent ==
    \E p \in Procs :
        \/ \E user_query \in OrchQueries, conversation_history \in ToolAgentHistories :
              ToolAgentStart(p, user_query, conversation_history)
        \/ \E reply \in ToolReplies : FirstReply(p, reply)
        \/ \E reply \in FinalReplies : SecondReply(p, reply)

SpecToolAgent == Init /\ [][NextToolAgent]_vars

\* C30: when the first reply requested tool calls and a second completion
\* request was sent, its messages hold, for every requested tool call, exactly
\* one tool message with that call's id, placed after the assistant message
\* that requested it; and a query makes at most two completion requests.
C30_EveryToolCallIsAnswered ==
    \A p \in Procs :
        req[p].pc \in {"first_completion", "second_completion"} \/ (req[p].pc = "done" /\ nreq > 0)
        => /\ req[p].completions <= 2
           /\ Len(req[p].second_request) > 0
                => \A i \in 1..Len(req[p].tool_calls) :
                      /\ Cardinality({j \in 1..Len(req[p].second_request) :
                                         /\ req[p].second_request[j].role = "tool"
                                         /\ req[p].second_request[j].tool_call_id = req[p].tool_calls[i].id}) = 1
                      /\ \A j \in 1..Len(req[p].second_request) :
                            (req[p].second_request[j].role = "tool" /\ req[p].second_request[j].tool_call_id = req[p].tool_calls[i].id)
                                => \E k \in 1..(j - 1) :
                                      /\ req[p].second_request[k].role = "assistant"
                                      /\ \E n \in 1..Len(req[p].second_request[k].tool_calls) :
                                            req[p].second_request[k].tool_calls[n] = req[p].tool_calls[i].id

====
